---- MODULE Spec2Model ----
(***************************************************************************)
(* DICOM series classification and renaming (dicom2nii).                   *)
(*                                                                         *)
(* The module models the refactored classification engine under            *)
(* python/src (DicomRenameManager, the 16 MR strategies, the attribute     *)
(* extractors) and, where the two copies of the code differ, the original   *)
(* engine under src/convert (ConvertManager).                              *)
(*                                                                         *)
(* A DICOM dataset is a record of the tags the engine reads.  Every read   *)
(* of SeriesDescription in the code is case-insensitive, so a description  *)
(* is kept case-folded to upper case, as a sequence of characters.         *)
(* An absent tag is "<absent>" for a single-valued tag and << >> for a     *)
(* multi-valued one or for the description.                                *)
(***************************************************************************)
EXTENDS Integers, Sequences, FiniteSets, TLC

VARIABLES
    processing_strategy_list, \* DicomRenameManager.processing_strategy_list
    \* classification of one dataset
    dicom_ds,                 \* the dataset under classification
    pc,                       \* position of the classification call
    series_name,              \* result of determine_series_name
    study_folder_name,        \* result of get_study_folder_name
    raised,                   \* an exception reached determine_series_name's handler
    \* a run of DicomRenameManager over the input files
    dicom_files,              \* run: list(self.input_path.rglob("*.dcm"))
    submitted,                \* number of futures submitted to the executor
    task_pc,                  \* position of each process_single_dicom_file call
    task_study,               \* its output_study_path
    task_series,              \* its series_name
    task_exists,              \* its output_file_path.exists()
    task_result,              \* the result of its future
    dirs,                     \* directories of the output tree
    files,                    \* files of the output tree, with their content
    collected,                \* number of futures whose result was collected
    successful_count,
    failed_count,
    \* worker threads inside DwiProcessingStrategy, sharing the class attribute
    engine,                   \* which engine runs: "refactored" or "legacy"
    series_group_fn_list,     \* DwiProcessingStrategy.series_group_fn_list
    worker_pc,                \* position of each worker in process()
    worker_ds,                \* its dicom_ds
    worker_index,             \* position of its for loop over the list
    worker_results,           \* results of the group functions it has called
    worker_verdict,           \* the result of its process() call
    \* a run of NiftiPostProcessManager
    iterdir_order,            \* the order in which a directory lists its entries
    processing_strategies,    \* NiftiPostProcessManager._processing_strategies
    study_paths,              \* the study folders under input_path, in run()'s order
    post_pc,                  \* position of run()
    study_index,              \* position of run()'s loop over study_paths
    strategy_index,           \* position of post_process_study's loop
    post_log,                 \* the steps the current run() has taken
    manager_ops,              \* number of add/remove operations so far
    run_outcomes,             \* how each run() so far has ended
    run_start,                \* study_paths when the current run() began
    lost,                     \* volumes the current run() has overwritten
    \* the worker pool of a manager
    DEFAULT_WORKER_COUNT,     \* Config.DEFAULT_WORKER_COUNT
    MAX_WORKER_COUNT,         \* Config.MAX_WORKER_COUNT
    MIN_WORKER_COUNT,         \* Config.MIN_WORKER_COUNT
    pool_pc,                  \* position of the caller that builds the pool
    requested,                \* the count the pool was asked for
    count_requested,          \* whether the caller named a count
    worker_count,             \* ConvertManager.worker_count
    max_workers,              \* ThreadPoolExecutor's max_workers
    pool_origin,              \* who created the pool
    \* one call of a normalizer's process() on a study folder
    norm_family,              \* the family of the normalizer
    norm_folder,              \* the study folder
    norm_pc,                  \* position of process()
    norm_entry,               \* the folder when process() was entered
    norm_kept                 \* the folder when the rename loop was entered

classify_vars == <<dicom_ds, pc, series_name, study_folder_name, raised>>

task_vars == <<task_pc, task_study, task_series, task_exists, task_result>>

rename_vars ==
    <<dicom_files, submitted, task_vars, dirs, files, collected,
      successful_count, failed_count>>

worker_vars ==
    <<engine, series_group_fn_list, worker_pc, worker_ds, worker_index,
      worker_results, worker_verdict>>

nifti_vars ==
    <<iterdir_order, processing_strategies, study_paths, post_pc, study_index,
      strategy_index, post_log, manager_ops, run_outcomes, run_start, lost>>

pool_vars ==
    <<DEFAULT_WORKER_COUNT, MAX_WORKER_COUNT, MIN_WORKER_COUNT, pool_pc,
      requested, count_requested, worker_count, max_workers, pool_origin>>

norm_vars == <<norm_family, norm_folder, norm_pc, norm_entry, norm_kept>>

vars ==
    <<processing_strategy_list, classify_vars, rename_vars, worker_vars,
      nifti_vars, pool_vars, norm_vars>>

-----------------------------------------------------------------------------
(* Enumerations (core/enums.py).  A member is <<class, member name>>;      *)
(* members of different classes are different values, as Python Enum.     *)

NULL == <<"NullEnum", "NULL">>
Mod(m) == <<"ModalityEnum", m>>
Acq(a) == <<"MRAcquisitionTypeEnum", a>>
Ori(o) == <<"ImageOrientationEnum", o>>
Con(c) == <<"ContrastEnum", c>>
Rep(r) == <<"RepetitionTimeEnum", r>>
Body(b) == <<"BodyPartEnum", b>>
Ser(s) == <<"SeriesEnum", s>>
MRS(s) == <<"MRSeriesRenameEnum", s>>
T1E(s) == <<"T1SeriesRenameEnum", s>>
T2E(s) == <<"T2SeriesRenameEnum", s>>
ASLE(s) == <<"ASLSEQSeriesRenameEnum", s>>
DSCE(s) == <<"DSCSeriesRenameEnum", s>>
DTIE(s) == <<"DTISeriesEnum", s>>

\* enum.value for the members that can be a verdict
EnumValue(e) ==
    CASE e = NULL -> ""
      [] e = DSCE("rCBF") -> "DSCCBF_COLOR"
      [] e = DSCE("rCBV") -> "DSCCBV_COLOR"
      [] e = DSCE("MTT") -> "DSCMTT_COLOR"
      [] OTHER -> e[2]

\* A call either returns a value or raises.
Ok(v) == [exc |-> FALSE, val |-> v]
Raise == [exc |-> TRUE, val |-> NULL]

-----------------------------------------------------------------------------
(* Tag values.                                                             *)

Absent == "<absent>"

\* str -> number conversions, float(...) / int(...); a string outside the
\* table does not parse and the conversion raises ValueError.
NumeralValue ==
    [s \in {"0", "20", "100", "500", "800", "1000", "2000", "5000"} |->
        CASE s = "0" -> 0 [] s = "20" -> 20 [] s = "100" -> 100
          [] s = "500" -> 500 [] s = "800" -> 800 [] s = "1000" -> 1000
          [] s = "2000" -> 2000 [] s = "5000" -> 5000]
IsNumeral(s) == s \in DOMAIN NumeralValue

-----------------------------------------------------------------------------
(* Series descriptions, upper case, one character per element.             *)

D_AX_DWI == <<"A","X"," ","D","W","I">>
D_DWI_ADC == <<"D","W","I"," ","A","D","C">>
D_ADC == <<"A","D","C">>
D_EADC == <<"E","A","D","C">>
D_AX_SWAN == <<"A","X"," ","S","W","A","N">>
D_AX_SWAN_MIP == <<"A","X"," ","S","W","A","N"," ","M","I","P">>
D_3D_TOF == <<"3","D"," ","T","O","F">>
D_3D_TOF_NECK == <<"3","D"," ","T","O","F"," ","N","E","C","K">>
D_MRA == <<"M","R","A">>
D_NECK_MRA == <<"N","E","C","K"," ","M","R","A">>
D_AX_T1 == <<"A","X"," ","T","1">>
D_AX_T1_FLAIR == <<"A","X"," ","T","1"," ","F","L","A","I","R">>
D_SAG_T1_CUBE_C == <<"S","A","G"," ","T","1"," ","C","U","B","E"," ","+","C">>
D_AX_T2 == <<"A","X"," ","T","2">>
D_AX_T2_FLAIR == <<"A","X"," ","T","2"," ","F","L","A","I","R">>
D_MULTI_DELAY_ASL_SEQ == <<"M","U","L","T","I","-","D","E","L","A","Y"," ","A","S","L"," ","S","E","Q">>
D_PERFUSION == <<"P","E","R","F","U","S","I","O","N">>
D_CBF == <<"C","B","F">>
D_RESTING == <<"R","E","S","T","I","N","G">>
D_CVR_2000_EAR == <<"C","V","R"," ","2","0","0","0"," ","E","A","R">>
D_CVR_REST == <<"C","V","R"," ","R","E","S","T">>
D_DTI_64 == <<"D","T","I"," ","6","4">>
D_LOCALIZER == <<"L","O","C","A","L","I","Z","E","R">>

NoDescription == << >>

Descriptions ==
    { D_AX_DWI, D_DWI_ADC, D_ADC, D_EADC, D_AX_SWAN, D_AX_SWAN_MIP, D_3D_TOF,
      D_3D_TOF_NECK, D_MRA, D_NECK_MRA, D_AX_T1, D_AX_T1_FLAIR, D_SAG_T1_CUBE_C,
      D_AX_T2, D_AX_T2_FLAIR, D_MULTI_DELAY_ASL_SEQ, D_PERFUSION, D_CBF,
      D_RESTING, D_CVR_2000_EAR, D_CVR_REST, D_DTI_64, D_LOCALIZER }

-----------------------------------------------------------------------------
(* Regular expressions of the strategies, on case-folded descriptions.     *)

\* sub occurs in s starting at position i (1-based)
OccursAt(s, sub, i) ==
    /\ i >= 1
    /\ i + Len(sub) - 1 <= Len(s)
    /\ \A k \in 1..Len(sub) : s[i + k - 1] = sub[k]

\* str.__contains__ / re.search of a literal
Contains(s, sub) == \E i \in 1..Len(s) : OccursAt(s, sub, i)

\* re: .*(A|B|...).*  under match or search
ContainsAny(s, subs) == \E sub \in subs : Contains(s, sub)

\* ((?!X|Y).)* spanning positions from..to: no alternative starts there
NoneStartsIn(s, subs, from, to) ==
    \A i \in from..to : \A sub \in subs : ~OccursAt(s, sub, i)

W_TOF == <<"T","O","F">>
W_NECK == <<"N","E","C","K">>
W_MRA == <<"M","R","A">>

\* re: .+(TOF)(((?!Neck).)*)$   under match
Match_MRA_BRAIN(s) ==
    \E i \in 2..Len(s) :
        /\ OccursAt(s, W_TOF, i)
        /\ NoneStartsIn(s, {W_NECK}, i + 3, Len(s))

\* re: .+(TOF).*(Neck).*$   under match
Match_MRA_NECK(s) ==
    \E i \in 2..Len(s) :
        /\ OccursAt(s, W_TOF, i)
        /\ \E j \in (i + 3)..Len(s) : OccursAt(s, W_NECK, j)

\* re: ((?!TOF|Neck).)*(MRA)((?!Neck).)*$   under match
Match_MRAVR_BRAIN(s) ==
    \E i \in 1..Len(s) :
        /\ NoneStartsIn(s, {W_TOF, W_NECK}, 1, i - 1)
        /\ OccursAt(s, W_MRA, i)
        /\ NoneStartsIn(s, {W_NECK}, i + 3, Len(s))

\* re: ((?!TOF).)*(Neck.*MRA)|(MRA.*Neck).*$   under match
Match_MRAVR_NECK(s) ==
    \/ \E i \in 1..Len(s) :
          /\ NoneStartsIn(s, {W_TOF}, 1, i - 1)
          /\ OccursAt(s, W_NECK, i)
          /\ \E j \in (i + 4)..Len(s) : OccursAt(s, W_MRA, j)
    \/ /\ OccursAt(s, W_MRA, 1)
       /\ \E j \in 4..Len(s) : OccursAt(s, W_NECK, j)

-----------------------------------------------------------------------------
(* Attribute extractors (processing/base.py, utils/dicom_utils.py).        *)

\* ModalityProcessingStrategy.process
ModalityProcessingStrategy(ds) ==
    IF ds.Modality \in {"CT", "MR"} THEN Ok(Mod(ds.Modality)) ELSE Ok(NULL)

\* MRAcquisitionTypeProcessingStrategy.process
MRAcquisitionTypeProcessingStrategy(ds) ==
    IF ds.MRAcquisitionType \in {"2D", "3D"}
    THEN Ok(Acq(ds.MRAcquisitionType)) ELSE Ok(NULL)

\* np.round on a direction cosine kept in hundredths (round half to even)
RoundHundredths(x) ==
    LET q == x \div 100
        r == x % 100
    IN  IF r > 50 THEN q + 1
        ELSE IF r < 50 THEN q
        ELSE IF q % 2 = 0 THEN q ELSE q + 1

AbsInt(x) == IF x < 0 THEN -x ELSE x

\* np.argsort(a)[-1]: 1-based position of the largest element, the last of
\* equal elements (the sort of a 6-element array is stable)
ArgSortLast(a) ==
    CHOOSE i \in 1..Len(a) :
        \A j \in 1..Len(a) : a[j] < a[i] \/ (a[j] = a[i] /\ j <= i)

\* np.argsort(a)[-2]
ArgSortSecondLast(a) ==
    LET m == ArgSortLast(a)
    IN  CHOOSE i \in (1..Len(a)) \ {m} :
            \A j \in (1..Len(a)) \ {m} : a[j] < a[i] \/ (a[j] = a[i] /\ j <= i)

\* ImageOrientationProcessingStrategy.process
ImageOrientationProcessingStrategy(ds) ==
    LET v == ds.ImageOrientationPatient
        orientation_abs == [i \in 1..Len(v) |-> AbsInt(RoundHundredths(v[i]))]
        max_idx == ArgSortLast(orientation_abs) - 1
        second_max_idx == ArgSortSecondLast(orientation_abs) - 1
        pair == {max_idx, second_max_idx}
    IN  IF v = << >> THEN Ok(NULL)
        ELSE IF Len(v) < 2 THEN Raise    \* index_sort[-2]: IndexError -> ProcessingError
        ELSE IF pair = {0, 5} THEN Ok(Ori("COR"))
        ELSE IF pair = {1, 5} THEN Ok(Ori("SAG"))
        ELSE IF pair = {0, 4} THEN Ok(Ori("AXI"))
        ELSE Ok(NULL)

\* reformatted_mapping.get(image_orientation, image_orientation)
reformatted_mapping(o) ==
    IF o \in {Ori("AXI"), Ori("SAG"), Ori("COR")}
    THEN Ori(o[2] \o "r") ELSE o

\* <Strategy>.get_image_orientation: orientation with the REFORMATTED check
get_image_orientation(ds) ==
    LET image_orientation == ImageOrientationProcessingStrategy(ds)
        image_type == ds.ImageType
    IN  IF image_orientation.exc THEN Raise
        ELSE IF image_type = << >> \/ Len(image_type) < 3 THEN image_orientation
        ELSE IF image_type[3] = "REFORMATTED"
             THEN Ok(reformatted_mapping(image_orientation.val))
        ELSE image_orientation

W_PLUS_C == <<"+","C">>
W_C_PLUS == <<"C","+">>

\* ContrastProcessingStrategy.process
ContrastProcessingStrategy(ds) ==
    LET modality_enum == ModalityProcessingStrategy(ds).val
        contrast == ds.ContrastBolusAgent
    IN  IF ds.SeriesDescription = NoDescription THEN Ok(NULL)
        ELSE IF modality_enum = Mod("MR") THEN
            IF contrast # Absent /\ contrast # "" THEN Ok(Con("CE"))
            ELSE IF ContainsAny(ds.SeriesDescription, {W_PLUS_C, W_C_PLUS})
                 THEN Ok(Con("CE"))
            ELSE Ok(Con("NE"))
        ELSE IF modality_enum = Mod("CT") THEN
            IF contrast # Absent THEN Ok(Con("CE")) ELSE Ok(Con("NE"))
        ELSE Ok(NULL)

\* utils.dicom_utils.get_b_values: int(first element) or None (-1 here)
get_b_values(ds) ==
    IF ds.BValues = << >> THEN -1
    ELSE IF IsNumeral(ds.BValues[1]) THEN NumeralValue[ds.BValues[1]]
    ELSE -1    \* ValueError caught

\* DwiProcessingStrategy.get_b_values
DWI_get_b_values(ds) ==
    LET b_value == get_b_values(ds)
    IN  IF b_value = 0 THEN Ok(MRS("B_VALUES_0"))
        ELSE IF b_value = 1000 THEN Ok(MRS("B_VALUES_1000"))
        ELSE Ok(NULL)

\* CVRProcessingStrategy.get_repetition_time
get_repetition_time(ds) ==
    IF ds.RepetitionTime = Absent THEN Ok(NULL)
    ELSE IF ~IsNumeral(ds.RepetitionTime) THEN Raise    \* float(): ValueError
    ELSE IF NumeralValue[ds.RepetitionTime] = 1000 THEN Ok(Rep("TR1000"))
    ELSE IF NumeralValue[ds.RepetitionTime] = 2000 THEN Ok(Rep("TR2000"))
    ELSE Ok(NULL)

W_EYE == <<"E","Y","E">>
W_EAR == <<"E","A","R">>

\* CVRProcessingStrategy.get_body_part_from_description
get_body_part_from_description(ds) ==
    IF ds.SeriesDescription = NoDescription THEN Ok(NULL)
    ELSE IF Contains(ds.SeriesDescription, W_EYE) THEN Ok(Body("EYE"))
    ELSE IF Contains(ds.SeriesDescription, W_EAR) THEN Ok(Body("EAR"))
    ELSE Ok(NULL)

InSeq(x, seq) == \E i \in 1..Len(seq) : seq[i] = x

W_MIP == <<"M","I","P">>
W_PHASE == <<"P","H","A","S","E">>

\* SWANProcessingStrategy.get_series_type
SWAN_get_series_type(ds) ==
    LET image_type == ds.ImageType
    IN  IF image_type = << >> THEN Ok(NULL)
        ELSE IF Len(image_type) >= 3 THEN
            IF InSeq("ORIGINAL", image_type) /\ InSeq("PRIMARY", image_type)
            THEN Ok(Ser("ORIGINAL"))
            ELSE IF InSeq("DERIVED", image_type) /\ ds.SeriesDescription # NoDescription
            THEN IF Contains(ds.SeriesDescription, W_MIP) THEN Ok(Ser("mIP"))
                 ELSE IF Contains(ds.SeriesDescription, W_PHASE) THEN Ok(Ser("SWANPHASE"))
                 ELSE Ok(NULL)
            ELSE Ok(NULL)
        ELSE Ok(NULL)

\* ESWANProcessingStrategy.get_mip_info
get_mip_info(ds) ==
    IF ds.ImageType = << >> \/ ds.InstanceCreationTime = Absent THEN Ok(NULL)
    ELSE IF ds.ImageType[Len(ds.ImageType)] \in {"MIN IP", "REFORMATTED"}
         THEN Ok(Ser("mIP"))
    ELSE Ok(NULL)

\* ESWANProcessingStrategy.get_original_info
get_original_info(ds) ==
    IF ds.ImageType = << >> THEN Ok(NULL)
    ELSE IF InSeq("ORIGINAL", ds.ImageType) THEN Ok(Ser("ORIGINAL"))
    ELSE Ok(NULL)

W_FLAIR == <<"F","L","A","I","R">>
W_CUBE == <<"C","U","B","E">>
W_BRAVO == <<"B","R","A","V","O">>
W_FSPGR == <<"F","S","P","G","R">>
W_T1 == <<"T","1">>
W_T2 == <<"T","2">>

\* T1ProcessingStrategy.get_series_type
T1_get_series_type(ds) ==
    LET desc == ds.SeriesDescription
    IN  IF desc = NoDescription THEN Ok(NULL)
        ELSE IF Contains(desc, W_FLAIR) THEN Ok(Ser("FLAIR"))
        ELSE IF Contains(desc, W_CUBE) THEN Ok(Ser("CUBE"))
        ELSE IF Contains(desc, W_BRAVO) \/ Contains(desc, W_FSPGR) THEN Ok(Ser("BRAVO"))
        ELSE IF Contains(desc, W_T1) THEN Ok(T1E("T1"))
        ELSE Ok(NULL)

\* T2ProcessingStrategy.get_series_type
T2_get_series_type(ds) ==
    LET desc == ds.SeriesDescription
    IN  IF desc = NoDescription THEN Ok(NULL)
        ELSE IF Contains(desc, W_FLAIR) THEN Ok(Ser("FLAIR"))
        ELSE IF Contains(desc, W_CUBE) THEN Ok(Ser("CUBE"))
        ELSE IF Contains(desc, W_T2) THEN Ok(T2E("T2"))
        ELSE Ok(NULL)

W_64 == <<"6","4">>
W_32 == <<"3","2">>

\* DTIProcessingStrategy.get_dti_directions
get_dti_directions(ds) ==
    IF ds.SeriesDescription = NoDescription THEN Ok(NULL)
    ELSE IF Contains(ds.SeriesDescription, W_64) THEN Ok(DTIE("DTI64D"))
    ELSE Ok(DTIE("DTI32D"))

-----------------------------------------------------------------------------
(* Rule matching (utils/functional_helpers.py).  A pattern mapping is a    *)
(* sequence of entries in dict insertion order; an entry's pattern is a    *)
(* set of alternative literals, matched anywhere in the description.       *)

\* match_series_pattern: the first entry whose pattern matches, or None (NULL)
RECURSIVE match_series_pattern(_, _)
match_series_pattern(series_description, pattern_mapping) ==
    IF series_description = NoDescription \/ pattern_mapping = << >> THEN NULL
    ELSE IF ContainsAny(series_description, Head(pattern_mapping).pattern)
         THEN Head(pattern_mapping).series_enum
    ELSE match_series_pattern(series_description, Tail(pattern_mapping))

\* find_matching_rename_enum: the first rule, in dict order, whose required
\* set is a subset of the bag, or None (NULL)
RECURSIVE find_matching_rename_enum(_, _)
find_matching_rename_enum(group_results, rename_dict) ==
    IF rename_dict = << >> THEN NULL
    ELSE IF Head(rename_dict).required_set \subseteq group_results
         THEN Head(rename_dict).rename_enum
    ELSE find_matching_rename_enum(group_results, Tail(rename_dict))

\* the non-NULL values of a sequence of extractor results
BagOf(results) == {results[i].val : i \in 1..Len(results)} \ {NULL}

AnyRaised(results) == \E i \in 1..Len(results) : results[i].exc

\* process_series_with_type_mapping falling back to the matched family when
\* no rule fires
process_series_with_family_fallback(ds, series_mapping, rename_dict, attribute_extractors) ==
    LET matched_series == match_series_pattern(ds.SeriesDescription, series_mapping)
        group_results == {matched_series} \cup BagOf(attribute_extractors)
    IN  IF ds.SeriesDescription = NoDescription THEN NULL
        ELSE IF matched_series = NULL THEN NULL
        ELSE IF AnyRaised(attribute_extractors) THEN NULL
        ELSE IF find_matching_rename_enum(group_results, rename_dict) # NULL
             THEN find_matching_rename_enum(group_results, rename_dict)
        ELSE matched_series

\* process_series_with_type_mapping: result_enum of the ProcessingResult.
\* An extractor's exception is caught here and gives NULL.
process_series_with_type_mapping(ds, series_mapping, rename_dict, attribute_extractors) ==
    LET matched_series == match_series_pattern(ds.SeriesDescription, series_mapping)
        group_results == {matched_series} \cup BagOf(attribute_extractors)
    IN  IF ds.SeriesDescription = NoDescription THEN NULL
        ELSE IF matched_series = NULL THEN NULL
        ELSE IF AnyRaised(attribute_extractors) THEN NULL
        ELSE find_matching_rename_enum(group_results, rename_dict)

\* the guard clauses every strategy's process starts with
AcceptedBy(ds, modality, mr_acquisition_type) ==
    /\ ModalityProcessingStrategy(ds).val = modality
    /\ InSeq(MRAcquisitionTypeProcessingStrategy(ds).val, mr_acquisition_type)

-----------------------------------------------------------------------------
(* DWI, ADC, eADC (processing/dicom/structure/DWI.py, ADC.py).             *)

W_DWI == <<"D","W","I">>
W_AUTODIFF == <<"A","U","T","O","D","I","F","F">>
W_ADC == <<"A","D","C">>
W_EADC == <<"E","A","D","C">>

DWI_mr_acquisition_type == <<Acq("2D")>>

DWI_type_2d_series_rename_mapping ==
    << [series_enum |-> MRS("DWI"), pattern |-> {W_DWI, W_AUTODIFF}] >>

\* DwiProcessingStrategy.type_2d_series_rename_dict (structure/DWI.py 45-56)
DWI_type_2d_series_rename_dict ==
    <<
      [rename_enum |-> MRS("DWI0"),
       required_set |-> {MRS("DWI"), MRS("B_VALUES_0"), Ori("AXI")}],
      [rename_enum |-> MRS("DWI1000"),
       required_set |-> {MRS("DWI"), MRS("B_VALUES_1000"), Ori("AXI")}]
    >>

\* DwiProcessingStrategy._process_2d_type: the bag holds the extractors'
\* results only
DWI_process_2d_type(ds) ==
    LET results == <<get_image_orientation(ds), DWI_get_b_values(ds)>>
        group_results == BagOf(results)
    IN  IF ds.SeriesDescription = NoDescription THEN Ok(NULL)
        ELSE IF match_series_pattern(ds.SeriesDescription,
                                     DWI_type_2d_series_rename_mapping) = NULL
             THEN Ok(NULL)
        ELSE IF AnyRaised(results) THEN Raise
        ELSE Ok(find_matching_rename_enum(group_results, DWI_type_2d_series_rename_dict))

\* DwiProcessingStrategy.process
DWI_process(ds) ==
    IF ~AcceptedBy(ds, Mod("MR"), DWI_mr_acquisition_type) THEN Ok(NULL)
    ELSE IF MRAcquisitionTypeProcessingStrategy(ds).val = Acq("2D")
         THEN DWI_process_2d_type(ds)
    ELSE Ok(NULL)

ADC_mr_acquisition_type == <<Acq("2D")>>

ADC_type_2d_series_rename_mapping ==
    << [series_enum |-> MRS("ADC"), pattern |-> {W_ADC}] >>

\* ADCProcessingStrategy.type_2d_series_rename_dict (structure/ADC.py 42-47)
ADC_type_2d_series_rename_dict ==
    <<
      [rename_enum |-> MRS("ADC"),
       required_set |-> {MRS("ADC"), Ori("AXI")}]
    >>

\* the first rule whose required set contains the whole bag
RECURSIVE FirstRuleContaining(_, _)
FirstRuleContaining(group, rename_dict) ==
    IF rename_dict = << >> THEN NULL
    ELSE IF group \subseteq Head(rename_dict).required_set
         THEN Head(rename_dict).rename_enum
    ELSE FirstRuleContaining(group, Tail(rename_dict))

\* ADCProcessingStrategy.process
ADC_process(ds) ==
    LET series_enum == match_series_pattern(ds.SeriesDescription,
                                            ADC_type_2d_series_rename_mapping)
        image_orientation == get_image_orientation(ds)
    IN  IF ~AcceptedBy(ds, Mod("MR"), ADC_mr_acquisition_type) THEN Ok(NULL)
        ELSE IF ds.SeriesDescription = NoDescription THEN Ok(NULL)
        ELSE IF series_enum = NULL THEN Ok(NULL)
        ELSE IF image_orientation.exc THEN Raise
        ELSE Ok(FirstRuleContaining({series_enum, image_orientation.val},
                                    ADC_type_2d_series_rename_dict))

eADC_mr_acquisition_type == <<Acq("3D"), NULL>>

eADC_series_rename_mapping ==
    << [series_enum |-> MRS("eADC"), pattern |-> {W_EADC}] >>

\* EADCProcessingStrategy.process
eADC_process(ds) ==
    IF ModalityProcessingStrategy(ds).val # Mod("MR") THEN Ok(NULL)
    ELSE Ok(match_series_pattern(ds.SeriesDescription, eADC_series_rename_mapping))

-----------------------------------------------------------------------------
(* SWAN, eSWAN, MRA (processing/dicom/special/SWAN.py, eSWAN.py, MRA.py).  *)

W_SWAN == <<"S","W","A","N">>

SWAN_mr_acquisition_type == <<Acq("2D"), Acq("3D")>>

SWAN_series_rename_mapping ==
    << [series_enum |-> MRS("SWAN"), pattern |-> {W_SWAN}] >>

\* SWANProcessingStrategy.type_2d_series_rename_dict (special/SWAN.py 49-65)
SWAN_type_2d_series_rename_dict ==
    <<
      [rename_enum |-> MRS("SWAN"),
       required_set |-> {MRS("SWAN"), Ori("AXI"), Ser("ORIGINAL")}],
      [rename_enum |-> MRS("SWANmIP"),
       required_set |-> {MRS("SWAN"), Ori("AXI"), Ser("mIP")}],
      [rename_enum |-> MRS("SWANPHASE"),
       required_set |-> {MRS("SWAN"), Ori("AXI"), Ser("SWANPHASE")}]
    >>

\* SWANProcessingStrategy.type_3d_series_rename_dict (special/SWAN.py 67-78)
SWAN_type_3d_series_rename_dict ==
    <<
      [rename_enum |-> MRS("SWAN"),
       required_set |-> {MRS("SWAN"), Ori("AXI"), Ser("ORIGINAL")}],
      [rename_enum |-> MRS("SWANmIP"),
       required_set |-> {MRS("SWAN"), Ori("AXI"), Ser("mIP")}]
    >>

\* SWANProcessingStrategy._process_type
SWAN_process_type(ds, series_mapping, rename_dict) ==
    LET series_enum == match_series_pattern(ds.SeriesDescription, series_mapping)
        results == <<get_image_orientation(ds), SWAN_get_series_type(ds)>>
        group_results == {series_enum} \cup BagOf(results)
    IN  IF ds.SeriesDescription = NoDescription THEN Ok(NULL)
        ELSE IF series_enum = NULL THEN Ok(NULL)
        ELSE IF AnyRaised(results) THEN Raise
        ELSE Ok(find_matching_rename_enum(group_results, rename_dict))

\* SWANProcessingStrategy.process
SWAN_process(ds) ==
    LET mr_acquisition_type_enum == MRAcquisitionTypeProcessingStrategy(ds).val
    IN  IF ~AcceptedBy(ds, Mod("MR"), SWAN_mr_acquisition_type) THEN Ok(NULL)
        ELSE IF mr_acquisition_type_enum = Acq("2D")
             THEN SWAN_process_type(ds, SWAN_series_rename_mapping,
                                    SWAN_type_2d_series_rename_dict)
        ELSE IF mr_acquisition_type_enum = Acq("3D")
             THEN SWAN_process_type(ds, SWAN_series_rename_mapping,
                                    SWAN_type_3d_series_rename_dict)
        ELSE Ok(NULL)

eSWAN_mr_acquisition_type == <<Acq("3D")>>

eSWAN_series_rename_mapping ==
    << [series_enum |-> MRS("eSWAN"), pattern |-> {W_SWAN}] >>

\* ESWANProcessingStrategy.series_rename_dict (special/eSWAN.py 35-38)
eSWAN_series_rename_dict ==
    <<
      [rename_enum |-> MRS("eSWAN"),
       required_set |-> {Ser("eSWAN"), Ser("ORIGINAL")}],
      [rename_enum |-> MRS("eSWANmIP"),
       required_set |-> {Ser("eSWAN"), Ser("mIP")}]
    >>

\* ESWANProcessingStrategy.process
eSWAN_process(ds) ==
    LET results == <<get_mip_info(ds), get_original_info(ds)>>
        group_results == {Ser("eSWAN")} \cup BagOf(results)
    IN  IF ~AcceptedBy(ds, Mod("MR"), eSWAN_mr_acquisition_type) THEN Ok(NULL)
        ELSE IF ds.SeriesDescription = NoDescription THEN Ok(NULL)
        ELSE IF match_series_pattern(ds.SeriesDescription,
                                     eSWAN_series_rename_mapping) = NULL
             THEN Ok(NULL)
        ELSE Ok(find_matching_rename_enum(group_results, eSWAN_series_rename_dict))

MRA_mr_acquisition_type == <<Acq("3D")>>

\* image_type and len(image_type.value) > 0 and image_type.value[0] == "ORIGINAL"
FirstImageTypeIsOriginal(ds) ==
    ds.ImageType # << >> /\ ds.ImageType[1] = "ORIGINAL"

\* MRABrainProcessingStrategy.process
MRA_BRAIN_process(ds) ==
    IF ~AcceptedBy(ds, Mod("MR"), MRA_mr_acquisition_type) THEN Ok(NULL)
    ELSE IF ds.SeriesDescription = NoDescription THEN Ok(NULL)
    ELSE IF Match_MRA_BRAIN(ds.SeriesDescription) /\ FirstImageTypeIsOriginal(ds)
         THEN Ok(MRS("MRA_BRAIN"))
    ELSE Ok(NULL)

\* MRANeckProcessingStrategy.process
MRA_NECK_process(ds) ==
    IF ~AcceptedBy(ds, Mod("MR"), MRA_mr_acquisition_type) THEN Ok(NULL)
    ELSE IF ds.SeriesDescription = NoDescription THEN Ok(NULL)
    ELSE IF Match_MRA_NECK(ds.SeriesDescription) /\ FirstImageTypeIsOriginal(ds)
         THEN Ok(MRS("MRA_NECK"))
    ELSE Ok(NULL)

\* MRAVRBrainProcessingStrategy.process
MRAVR_BRAIN_process(ds) ==
    IF ~AcceptedBy(ds, Mod("MR"), MRA_mr_acquisition_type) THEN Ok(NULL)
    ELSE IF ds.SeriesDescription = NoDescription THEN Ok(NULL)
    ELSE IF Match_MRAVR_BRAIN(ds.SeriesDescription) THEN Ok(MRS("MRAVR_BRAIN"))
    ELSE Ok(NULL)

\* MRAVRNeckProcessingStrategy.process
MRAVR_NECK_process(ds) ==
    IF ~AcceptedBy(ds, Mod("MR"), MRA_mr_acquisition_type) THEN Ok(NULL)
    ELSE IF ds.SeriesDescription = NoDescription THEN Ok(NULL)
    ELSE IF Match_MRAVR_NECK(ds.SeriesDescription) THEN Ok(MRS("MRAVR_NECK"))
    ELSE Ok(NULL)

-----------------------------------------------------------------------------
(* T1, T2 (processing/dicom/structure/T1.py, T2.py).                       *)

W_AX == <<"A","X">>
W_COR == <<"C","O","R">>
W_SAG == <<"S","A","G">>

T1_mr_acquisition_type == <<Acq("2D"), Acq("3D")>>

T1_type_3d_series_rename_mapping ==
    << [series_enum |-> T1E("T1"), pattern |-> {W_T1, W_AX, W_COR, W_SAG}],
       [series_enum |-> Ser("FLAIR"), pattern |-> {W_FLAIR}],
       [series_enum |-> Ser("CUBE"), pattern |-> {W_CUBE}],
       [series_enum |-> Ser("BRAVO"), pattern |-> {W_BRAVO, W_FSPGR}] >>

T1_type_2d_series_rename_mapping ==
    << [series_enum |-> T1E("T1"), pattern |-> {W_T1}],
       [series_enum |-> Ser("FLAIR"), pattern |-> {W_FLAIR}] >>

\* T1ProcessingStrategy.type_2d_series_rename_dict (structure/T1.py 58-125)
T1_type_2d_series_rename_dict ==
    <<
      [rename_enum |-> T1E("T1_AXI"),
       required_set |-> {T1E("T1"), Ori("AXI"), Con("NE")}],
      [rename_enum |-> T1E("T1_SAG"),
       required_set |-> {T1E("T1"), Ori("SAG"), Con("NE")}],
      [rename_enum |-> T1E("T1_COR"),
       required_set |-> {T1E("T1"), Ori("COR"), Con("NE")}],
      [rename_enum |-> T1E("T1CE_AXI"),
       required_set |-> {T1E("T1"), Ori("AXI"), Con("CE")}],
      [rename_enum |-> T1E("T1CE_SAG"),
       required_set |-> {T1E("T1"), Ori("SAG"), Con("CE")}],
      [rename_enum |-> T1E("T1CE_COR"),
       required_set |-> {T1E("T1"), Ori("COR"), Con("CE")}],
      [rename_enum |-> T1E("T1FLAIR_AXI"),
       required_set |-> {T1E("T1"), Ser("FLAIR"), Ori("AXI"), Con("NE")}],
      [rename_enum |-> T1E("T1FLAIR_SAG"),
       required_set |-> {T1E("T1"), Ser("FLAIR"), Ori("SAG"), Con("NE")}],
      [rename_enum |-> T1E("T1FLAIR_COR"),
       required_set |-> {T1E("T1"), Ser("FLAIR"), Ori("COR"), Con("NE")}],
      [rename_enum |-> T1E("T1FLAIRCE_AXI"),
       required_set |-> {T1E("T1"), Ser("FLAIR"), Ori("AXI"), Con("CE")}],
      [rename_enum |-> T1E("T1FLAIRCE_SAG"),
       required_set |-> {T1E("T1"), Ser("FLAIR"), Ori("SAG"), Con("CE")}],
      [rename_enum |-> T1E("T1FLAIRCE_COR"),
       required_set |-> {T1E("T1"), Ser("FLAIR"), Ori("COR"), Con("CE")}]
    >>

\* T1ProcessingStrategy.type_3d_series_rename_dict (structure/T1.py 128-306)
T1_type_3d_series_rename_dict ==
    <<
      [rename_enum |-> T1E("T1CUBE_AXI"),
       required_set |-> {T1E("T1"), Ser("CUBE"), Ori("AXI"), Con("NE")}],
      [rename_enum |-> T1E("T1CUBE_SAG"),
       required_set |-> {T1E("T1"), Ser("CUBE"), Ori("SAG"), Con("NE")}],
      [rename_enum |-> T1E("T1CUBE_COR"),
       required_set |-> {T1E("T1"), Ser("CUBE"), Ori("COR"), Con("NE")}],
      [rename_enum |-> T1E("T1CUBE_AXIr"),
       required_set |-> {T1E("T1"), Ser("CUBE"), Ori("AXIr"), Con("NE")}],
      [rename_enum |-> T1E("T1CUBE_SAGr"),
       required_set |-> {T1E("T1"), Ser("CUBE"), Ori("SAGr"), Con("NE")}],
      [rename_enum |-> T1E("T1CUBE_CORr"),
       required_set |-> {T1E("T1"), Ser("CUBE"), Ori("CORr"), Con("NE")}],
      [rename_enum |-> T1E("T1CUBECE_AXI"),
       required_set |-> {T1E("T1"), Ser("CUBE"), Ori("AXI"), Con("CE")}],
      [rename_enum |-> T1E("T1CUBECE_SAG"),
       required_set |-> {T1E("T1"), Ser("CUBE"), Ori("SAG"), Con("CE")}],
      [rename_enum |-> T1E("T1CUBECE_COR"),
       required_set |-> {T1E("T1"), Ser("CUBE"), Ori("COR"), Con("CE")}],
      [rename_enum |-> T1E("T1CUBECE_AXIr"),
       required_set |-> {T1E("T1"), Ser("CUBE"), Ori("AXIr"), Con("CE")}],
      [rename_enum |-> T1E("T1CUBECE_SAGr"),
       required_set |-> {T1E("T1"), Ser("CUBE"), Ori("SAGr"), Con("CE")}],
      [rename_enum |-> T1E("T1CUBECE_CORr"),
       required_set |-> {T1E("T1"), Ser("CUBE"), Ori("CORr"), Con("CE")}],
      [rename_enum |-> T1E("T1FLAIRCUBE_AXI"),
       required_set |-> {T1E("T1"), Ser("FLAIR"), Ser("CUBE"), Ori("AXI"), Con("NE")}],
      [rename_enum |-> T1E("T1FLAIRCUBE_SAG"),
       required_set |-> {T1E("T1"), Ser("FLAIR"), Ser("CUBE"), Ori("SAG"), Con("NE")}],
      [rename_enum |-> T1E("T1FLAIRCUBE_COR"),
       required_set |-> {T1E("T1"), Ser("FLAIR"), Ser("CUBE"), Ori("COR"), Con("NE")}],
      [rename_enum |-> T1E("T1FLAIRCUBE_AXIr"),
       required_set |-> {T1E("T1"), Ser("FLAIR"), Ser("CUBE"), Ori("AXIr"), Con("NE")}],
      [rename_enum |-> T1E("T1FLAIRCUBE_SAGr"),
       required_set |-> {T1E("T1"), Ser("FLAIR"), Ser("CUBE"), Ori("SAGr"), Con("NE")}],
      [rename_enum |-> T1E("T1FLAIRCUBE_CORr"),
       required_set |-> {T1E("T1"), Ser("FLAIR"), Ser("CUBE"), Ori("CORr"), Con("NE")}],
      [rename_enum |-> T1E("T1BRAVO_AXI"),
       required_set |-> {T1E("T1"), Ser("BRAVO"), Ori("AXI"), Con("NE")}],
      [rename_enum |-> T1E("T1BRAVO_SAG"),
       required_set |-> {T1E("T1"), Ser("BRAVO"), Ori("SAG"), Con("NE")}],
      [rename_enum |-> T1E("T1BRAVO_COR"),
       required_set |-> {T1E("T1"), Ser("BRAVO"), Ori("COR"), Con("NE")}],
      [rename_enum |-> T1E("T1BRAVO_AXIr"),
       required_set |-> {T1E("T1"), Ser("BRAVO"), Ori("AXIr"), Con("NE")}],
      [rename_enum |-> T1E("T1BRAVO_SAGr"),
       required_set |-> {T1E("T1"), Ser("BRAVO"), Ori("SAGr"), Con("NE")}],
      [rename_enum |-> T1E("T1BRAVO_CORr"),
       required_set |-> {T1E("T1"), Ser("BRAVO"), Ori("CORr"), Con("NE")}],
      [rename_enum |-> T1E("T1BRAVOCE_AXIr"),
       required_set |-> {T1E("T1"), Ser("BRAVO"), Ori("AXIr"), Con("CE")}],
      [rename_enum |-> T1E("T1BRAVOCE_SAGr"),
       required_set |-> {T1E("T1"), Ser("BRAVO"), Ori("SAGr"), Con("CE")}],
      [rename_enum |-> T1E("T1BRAVOCE_CORr"),
       required_set |-> {T1E("T1"), Ser("BRAVO"), Ori("CORr"), Con("CE")}]
    >>

\* create_attribute_extractor_list applied to the dataset
T1_attribute_extractors(ds) ==
    <<get_image_orientation(ds), ContrastProcessingStrategy(ds), T1_get_series_type(ds)>>

\* T1ProcessingStrategy.process
T1_process(ds) ==
    LET mr_acquisition_type_enum == MRAcquisitionTypeProcessingStrategy(ds).val
    IN  IF ~AcceptedBy(ds, Mod("MR"), T1_mr_acquisition_type) THEN Ok(NULL)
        ELSE IF mr_acquisition_type_enum = Acq("2D")
             THEN Ok(process_series_with_type_mapping(ds,
                        T1_type_2d_series_rename_mapping,
                        T1_type_2d_series_rename_dict, T1_attribute_extractors(ds)))
        ELSE IF mr_acquisition_type_enum = Acq("3D")
             THEN Ok(process_series_with_type_mapping(ds,
                        T1_type_3d_series_rename_mapping,
                        T1_type_3d_series_rename_dict, T1_attribute_extractors(ds)))
        ELSE Ok(NULL)

T2_mr_acquisition_type == <<Acq("2D"), Acq("3D")>>

T2_type_3d_series_rename_mapping ==
    << [series_enum |-> T2E("T2"), pattern |-> {W_T2}],
       [series_enum |-> Ser("FLAIR"), pattern |-> {W_FLAIR}],
       [series_enum |-> Ser("CUBE"), pattern |-> {W_CUBE}] >>

T2_type_2d_series_rename_mapping ==
    << [series_enum |-> T2E("T2"), pattern |-> {W_T2}],
       [series_enum |-> Ser("FLAIR"), pattern |-> {W_FLAIR}] >>

\* T2ProcessingStrategy.type_2d_series_rename_dict (structure/T2.py 57-106)
T2_type_2d_series_rename_dict ==
    <<
      [rename_enum |-> T2E("T2_AXI"),
       required_set |-> {T2E("T2"), Ori("AXI"), Con("NE")}],
      [rename_enum |-> T2E("T2_SAG"),
       required_set |-> {T2E("T2"), Ori("SAG"), Con("NE")}],
      [rename_enum |-> T2E("T2_COR"),
       required_set |-> {T2E("T2"), Ori("COR"), Con("NE")}],
      [rename_enum |-> T2E("T2CE_AXI"),
       required_set |-> {T2E("T2"), Ori("AXI"), Con("CE")}],
      [rename_enum |-> T2E("T2CE_SAG"),
       required_set |-> {T2E("T2"), Ori("SAG"), Con("CE")}],
      [rename_enum |-> T2E("T2CE_COR"),
       required_set |-> {T2E("T2"), Ori("COR"), Con("CE")}],
      [rename_enum |-> T2E("T2FLAIR_AXI"),
       required_set |-> {T2E("T2"), Ser("FLAIR"), Ori("AXI"), Con("NE")}],
      [rename_enum |-> T2E("T2FLAIR_SAG"),
       required_set |-> {T2E("T2"), Ser("FLAIR"), Ori("SAG"), Con("NE")}],
      [rename_enum |-> T2E("T2FLAIR_COR"),
       required_set |-> {T2E("T2"), Ser("FLAIR"), Ori("COR"), Con("NE")}]
    >>

\* T2ProcessingStrategy.type_3d_series_rename_dict (structure/T2.py 109-252)
T2_type_3d_series_rename_dict ==
    <<
      [rename_enum |-> T2E("T2CUBE_AXI"),
       required_set |-> {T2E("T2"), Ser("CUBE"), Ori("AXI"), Con("NE")}],
      [rename_enum |-> T2E("T2CUBE_SAG"),
       required_set |-> {T2E("T2"), Ser("CUBE"), Ori("SAG"), Con("NE")}],
      [rename_enum |-> T2E("T2CUBE_COR"),
       required_set |-> {T2E("T2"), Ser("CUBE"), Ori("COR"), Con("NE")}],
      [rename_enum |-> T2E("T2CUBE_AXIr"),
       required_set |-> {T2E("T2"), Ser("CUBE"), Ori("AXIr"), Con("NE")}],
      [rename_enum |-> T2E("T2CUBE_SAGr"),
       required_set |-> {T2E("T2"), Ser("CUBE"), Ori("SAGr"), Con("NE")}],
      [rename_enum |-> T2E("T2CUBE_CORr"),
       required_set |-> {T2E("T2"), Ser("CUBE"), Ori("CORr"), Con("NE")}],
      [rename_enum |-> T2E("T2CUBECE_AXI"),
       required_set |-> {T2E("T2"), Ser("CUBE"), Ori("AXI"), Con("CE")}],
      [rename_enum |-> T2E("T2CUBECE_SAG"),
       required_set |-> {T2E("T2"), Ser("CUBE"), Ori("SAG"), Con("CE")}],
      [rename_enum |-> T2E("T2CUBECE_COR"),
       required_set |-> {T2E("T2"), Ser("CUBE"), Ori("COR"), Con("CE")}],
      [rename_enum |-> T2E("T2CUBECE_AXIr"),
       required_set |-> {T2E("T2"), Ser("CUBE"), Ori("AXIr"), Con("CE")}],
      [rename_enum |-> T2E("T2CUBECE_SAGr"),
       required_set |-> {T2E("T2"), Ser("CUBE"), Ori("SAGr"), Con("CE")}],
      [rename_enum |-> T2E("T2CUBECE_CORr"),
       required_set |-> {T2E("T2"), Ser("CUBE"), Ori("CORr"), Con("CE")}],
      [rename_enum |-> T2E("T2FLAIRCUBE_AXI"),
       required_set |-> {T2E("T2"), Ser("FLAIR"), Ser("CUBE"), Ori("AXI"), Con("NE")}],
      [rename_enum |-> T2E("T2FLAIRCUBE_SAG"),
       required_set |-> {T2E("T2"), Ser("FLAIR"), Ser("CUBE"), Ori("SAG"), Con("NE")}],
      [rename_enum |-> T2E("T2FLAIRCUBE_COR"),
       required_set |-> {T2E("T2"), Ser("FLAIR"), Ser("CUBE"), Ori("COR"), Con("NE")}],
      [rename_enum |-> T2E("T2FLAIRCUBE_AXIr"),
       required_set |-> {T2E("T2"), Ser("FLAIR"), Ser("CUBE"), Ori("AXIr"), Con("NE")}],
      [rename_enum |-> T2E("T2FLAIRCUBE_SAGr"),
       required_set |-> {T2E("T2"), Ser("FLAIR"), Ser("CUBE"), Ori("SAGr"), Con("NE")}],
      [rename_enum |-> T2E("T2FLAIRCUBE_CORr"),
       required_set |-> {T2E("T2"), Ser("FLAIR"), Ser("CUBE"), Ori("CORr"), Con("NE")}],
      [rename_enum |-> T2E("T2FLAIRCUBECE_AXIr"),
       required_set |-> {T2E("T2"), Ser("FLAIR"), Ser("CUBE"), Ori("AXIr"), Con("CE")}],
      [rename_enum |-> T2E("T2FLAIRCUBECE_SAGr"),
       required_set |-> {T2E("T2"), Ser("FLAIR"), Ser("CUBE"), Ori("SAGr"), Con("CE")}],
      [rename_enum |-> T2E("T2FLAIRCUBECE_CORr"),
       required_set |-> {T2E("T2"), Ser("FLAIR"), Ser("CUBE"), Ori("CORr"), Con("CE")}]
    >>

T2_attribute_extractors(ds) ==
    <<get_image_orientation(ds), ContrastProcessingStrategy(ds), T2_get_series_type(ds)>>

\* T2ProcessingStrategy.process
T2_process(ds) ==
    LET mr_acquisition_type_enum == MRAcquisitionTypeProcessingStrategy(ds).val
    IN  IF ~AcceptedBy(ds, Mod("MR"), T2_mr_acquisition_type) THEN Ok(NULL)
        ELSE IF mr_acquisition_type_enum = Acq("2D")
             THEN Ok(process_series_with_type_mapping(ds,
                        T2_type_2d_series_rename_mapping,
                        T2_type_2d_series_rename_dict, T2_attribute_extractors(ds)))
        ELSE IF mr_acquisition_type_enum = Acq("3D")
             THEN Ok(process_series_with_type_mapping(ds,
                        T2_type_3d_series_rename_mapping,
                        T2_type_3d_series_rename_dict, T2_attribute_extractors(ds)))
        ELSE Ok(NULL)

-----------------------------------------------------------------------------
(* ASL, DSC (processing/dicom/perfusion/ASL.py, DSC.py).                   *)

W_ASLSEQ ==
    <<"M","U","L","T","I","-","D","E","L","A","Y"," ","A","S",
      "L"," ","S","E","Q">>
W_ASLPROD ==
    <<"3","D"," ","A","S","L"," ","(","N","O","N","-","C","O",
      "N","T","R","A","S","T",")">>
W_ASLSEQATT ==
    <<"(","T","R","A","N","S","I","T"," ","D","E","L","A","Y",
      ")"," ","M","U","L","T","I","-","D","E","L","A","Y"," ",
      "A","S","L"," ","S","E","Q">>
W_ASLSEQATT_COLOR ==
    <<"(","C","O","L","O","R"," ","T","R","A","N","S","I","T",
      " ","D","E","L","A","Y",")"," ","M","U","L","T","I","-",
      "D","E","L","A","Y"," ","A","S","L"," ","S","E","Q">>
W_ASLSEQCBF ==
    <<"(","T","R","A","N","S","I","T"," ","C","O","R","R","E",
      "C","T","E","D"," ","C","B","F",")"," ","M","U","L","T",
      "I","-","D","E","L","A","Y"," ","A","S","L"," ","S","E",
      "Q">>
W_ASLSEQCBF_COLOR ==
    <<"(","C","O","L","O","R"," ","T","R","A","N","S","I","T",
      " ","C","O","R","R","E","C","T","E","D"," ","C","B","F",
      ")"," ","M","U","L","T","I","-","D","E","L","A","Y"," ",
      "A","S","L"," ","S","E","Q">>
W_ASLSEQPW ==
    <<"(","P","E","R"," ","D","E","L",","," ","M","E","A","N",
      " ","P","W",","," ","R","E","F",")"," ","M","U","L","T",
      "I","-","D","E","L","A","Y"," ","A","S","L"," ","S","E",
      "Q">>

ASL_mr_acquisition_type == <<Acq("3D")>>

ASL_series_rename_mapping ==
    << [series_enum |-> ASLE("ASLSEQ"), pattern |-> {W_ASLSEQ}],
       [series_enum |-> ASLE("ASLPROD"), pattern |-> {W_ASLPROD}],
       [series_enum |-> ASLE("ASLSEQATT"), pattern |-> {W_ASLSEQATT}],
       [series_enum |-> ASLE("ASLSEQATT_COLOR"), pattern |-> {W_ASLSEQATT_COLOR}],
       [series_enum |-> ASLE("ASLSEQCBF"), pattern |-> {W_ASLSEQCBF}],
       [series_enum |-> ASLE("ASLSEQCBF_COLOR"), pattern |-> {W_ASLSEQCBF_COLOR}],
       [series_enum |-> ASLE("ASLSEQPW"), pattern |-> {W_ASLSEQPW}] >>

\* ASLProcessingStrategy.process
ASL_process(ds) ==
    IF ~AcceptedBy(ds, Mod("MR"), ASL_mr_acquisition_type) THEN Ok(NULL)
    ELSE Ok(match_series_pattern(ds.SeriesDescription, ASL_series_rename_mapping))

W_AUTOPWI == <<"A","U","T","O","P","W","I">>
W_PERFUSION == <<"P","E","R","F","U","S","I","O","N">>
W_CBF == <<"C","B","F">>
W_CBV == <<"C","B","V">>
W_MTT == <<"M","T","T">>

DSC_mr_acquisition_type == <<Acq("2D"), NULL>>

DSC_type_2d_series_rename_mapping ==
    << [series_enum |-> DSCE("DSC"), pattern |-> {W_AUTOPWI, W_PERFUSION}] >>

DSC_type_null_series_rename_mapping ==
    << [series_enum |-> DSCE("rCBF"), pattern |-> {W_CBF}],
       [series_enum |-> DSCE("rCBV"), pattern |-> {W_CBV}],
       [series_enum |-> DSCE("MTT"), pattern |-> {W_MTT}] >>

\* DSCProcessingStrategy.type_null_series_rename_dict (perfusion/DSC.py 49-53)
DSC_type_null_series_rename_dict ==
    <<
      [rename_enum |-> DSCE("rCBF"),
       required_set |-> {DSCE("rCBF")}],
      [rename_enum |-> DSCE("rCBV"),
       required_set |-> {DSCE("rCBV")}],
      [rename_enum |-> DSCE("MTT"),
       required_set |-> {DSCE("MTT")}]
    >>

\* DSCProcessingStrategy._process_type: every mapping entry that matches is
\* tried in turn
RECURSIVE DSC_process_type(_, _, _)
DSC_process_type(ds, series_mapping, rename_dict) ==
    IF ds.SeriesDescription = NoDescription \/ series_mapping = << >> THEN NULL
    ELSE IF ContainsAny(ds.SeriesDescription, Head(series_mapping).pattern)
         THEN IF rename_dict = << >> THEN Head(series_mapping).series_enum
              ELSE IF FirstRuleContaining({Head(series_mapping).series_enum},
                                          rename_dict) # NULL
                   THEN FirstRuleContaining({Head(series_mapping).series_enum},
                                            rename_dict)
              ELSE DSC_process_type(ds, Tail(series_mapping), rename_dict)
    ELSE DSC_process_type(ds, Tail(series_mapping), rename_dict)

\* DSCProcessingStrategy.process
DSC_process(ds) ==
    LET mr_acquisition_type_enum == MRAcquisitionTypeProcessingStrategy(ds).val
    IN  IF ~AcceptedBy(ds, Mod("MR"), DSC_mr_acquisition_type) THEN Ok(NULL)
        ELSE IF mr_acquisition_type_enum = Acq("2D")
             THEN Ok(DSC_process_type(ds, DSC_type_2d_series_rename_mapping, << >>))
        ELSE IF mr_acquisition_type_enum = NULL
             THEN Ok(DSC_process_type(ds, DSC_type_null_series_rename_mapping,
                                      DSC_type_null_series_rename_dict))
        ELSE Ok(NULL)

-----------------------------------------------------------------------------
(* Resting, CVR, DTI (processing/dicom/functional).                        *)

W_REST == <<"R","E","S","T">>
W_RESTING == <<"R","E","S","T","I","N","G">>
W_CVR == <<"C","V","R">>
W_DTI == <<"D","T","I">>

RESTING_mr_acquisition_type == <<Acq("2D")>>

RESTING_series_rename_mapping ==
    << [series_enum |-> MRS("RESTING"), pattern |-> {W_RESTING, W_REST}] >>

\* RestingProcessingStrategy.type_2d_series_rename_dict (functional/RESTING.py 36-42)
RESTING_type_2d_series_rename_dict ==
    <<
      [rename_enum |-> MRS("RESTING2000"),
       required_set |-> {MRS("RESTING"), Rep("TR2000")}],
      [rename_enum |-> MRS("RESTING"),
       required_set |-> {MRS("RESTING")}]
    >>

\* the value a strategy returns when no rule fires after a pattern match
FirstOr(rename_enum, series_enum) ==
    IF rename_enum # NULL THEN rename_enum ELSE series_enum

\* RestingProcessingStrategy.process
RESTING_process(ds) ==
    LET series_enum == match_series_pattern(ds.SeriesDescription,
                                            RESTING_series_rename_mapping)
        results == <<get_repetition_time(ds)>>
        group_results == {series_enum} \cup BagOf(results)
    IN  IF ~AcceptedBy(ds, Mod("MR"), RESTING_mr_acquisition_type) THEN Ok(NULL)
        ELSE IF ds.SeriesDescription = NoDescription THEN Ok(NULL)
        ELSE IF series_enum = NULL THEN Ok(NULL)
        ELSE IF AnyRaised(results) THEN Raise
        ELSE Ok(FirstOr(find_matching_rename_enum(group_results,
                            RESTING_type_2d_series_rename_dict), series_enum))

CVR_mr_acquisition_type == <<Acq("2D")>>

CVR_series_rename_mapping ==
    << [series_enum |-> MRS("CVR"), pattern |-> {W_CVR}] >>

\* CVRProcessingStrategy.type_2d_series_rename_dict (functional/CVR.py 37-51)
CVR_type_2d_series_rename_dict ==
    <<
      [rename_enum |-> MRS("CVR2000_EAR"),
       required_set |-> {MRS("CVR"), Rep("TR2000"), Body("EAR")}],
      [rename_enum |-> MRS("CVR2000_EYE"),
       required_set |-> {MRS("CVR"), Rep("TR2000"), Body("EYE")}],
      [rename_enum |-> MRS("CVR2000"),
       required_set |-> {MRS("CVR"), Rep("TR2000")}],
      [rename_enum |-> MRS("CVR1000"),
       required_set |-> {MRS("CVR"), Rep("TR1000")}],
      [rename_enum |-> MRS("CVR"),
       required_set |-> {MRS("CVR")}]
    >>

\* sorted(rename_dict.items(), key=lambda x: len(x[1]), reverse=True):
\* larger required sets first, equal sizes in dict order
RECURSIVE SortedBySizeDesc(_, _)
SortedBySizeDesc(rename_dict, size) ==
    IF size < 0 THEN << >>
    ELSE SelectSeq(rename_dict, LAMBDA r : Cardinality(r.required_set) = size)
         \o SortedBySizeDesc(rename_dict, size - 1)

MaxRuleSize(rename_dict) ==
    CHOOSE n \in {Cardinality(rename_dict[i].required_set) : i \in 1..Len(rename_dict)} :
        \A i \in 1..Len(rename_dict) : Cardinality(rename_dict[i].required_set) <= n

\* CVRProcessingStrategy.process
CVR_process(ds) ==
    LET series_enum == match_series_pattern(ds.SeriesDescription,
                                            CVR_series_rename_mapping)
        results == <<get_repetition_time(ds), get_body_part_from_description(ds)>>
        group_results == {series_enum} \cup BagOf(results)
        sorted_rules == SortedBySizeDesc(CVR_type_2d_series_rename_dict,
                                         MaxRuleSize(CVR_type_2d_series_rename_dict))
    IN  IF ~AcceptedBy(ds, Mod("MR"), CVR_mr_acquisition_type) THEN Ok(NULL)
        ELSE IF ds.SeriesDescription = NoDescription THEN Ok(NULL)
        ELSE IF series_enum = NULL THEN Ok(NULL)
        ELSE IF AnyRaised(results) THEN Raise
        ELSE Ok(FirstOr(find_matching_rename_enum(group_results, sorted_rules),
                        series_enum))

DTI_mr_acquisition_type == <<Acq("2D"), Acq("3D")>>

\* DTIProcessingStrategy.process
DTI_process(ds) ==
    LET dti_directions == get_dti_directions(ds).val
    IN  IF ~AcceptedBy(ds, Mod("MR"), DTI_mr_acquisition_type) THEN Ok(NULL)
        ELSE IF ds.SeriesDescription = NoDescription THEN Ok(NULL)
        ELSE IF ~Contains(ds.SeriesDescription, W_DTI) THEN Ok(NULL)
        ELSE IF dti_directions = DTIE("DTI32D") THEN Ok(MRS("DTI32D"))
        ELSE IF dti_directions = DTIE("DTI64D") THEN Ok(MRS("DTI64D"))
        ELSE Ok(NULL)

-----------------------------------------------------------------------------
(* The strategy registry and the dispatcher (processing/factory.py,        *)
(* managers/dicom_rename_manager.py).                                      *)

\* ProcessingStrategyFactory._mr_strategy_registry, in insertion order
mr_strategy_registry ==
    << "DWI", "ADC", "eADC", "SWAN", "eSWAN", "MRA_BRAIN", "MRA_NECK",
       "MRAVR_BRAIN", "MRAVR_NECK", "T1", "T2", "ASL", "DSC", "CVR",
       "RESTING", "DTI" >>

\* ProcessingStrategyFactory.create_all_mr_strategies
create_all_mr_strategies == mr_strategy_registry

\* <strategy>.modality
StrategyModality(strategy) == Mod("MR")

\* <strategy>.mr_acquisition_type
mr_acquisition_type(strategy) ==
    CASE strategy = "DWI" -> DWI_mr_acquisition_type
      [] strategy = "ADC" -> ADC_mr_acquisition_type
      [] strategy = "eADC" -> eADC_mr_acquisition_type
      [] strategy = "SWAN" -> SWAN_mr_acquisition_type
      [] strategy = "eSWAN" -> eSWAN_mr_acquisition_type
      [] strategy \in {"MRA_BRAIN", "MRA_NECK", "MRAVR_BRAIN", "MRAVR_NECK"}
            -> MRA_mr_acquisition_type
      [] strategy = "T1" -> T1_mr_acquisition_type
      [] strategy = "T2" -> T2_mr_acquisition_type
      [] strategy = "ASL" -> ASL_mr_acquisition_type
      [] strategy = "DSC" -> DSC_mr_acquisition_type
      [] strategy = "CVR" -> CVR_mr_acquisition_type
      [] strategy = "RESTING" -> RESTING_mr_acquisition_type
      [] strategy = "DTI" -> DTI_mr_acquisition_type

\* <strategy>.process(dicom_ds)
StrategyProcess(strategy, ds) ==
    CASE strategy = "DWI" -> DWI_process(ds)
      [] strategy = "ADC" -> ADC_process(ds)
      [] strategy = "eADC" -> eADC_process(ds)
      [] strategy = "SWAN" -> SWAN_process(ds)
      [] strategy = "eSWAN" -> eSWAN_process(ds)
      [] strategy = "MRA_BRAIN" -> MRA_BRAIN_process(ds)
      [] strategy = "MRA_NECK" -> MRA_NECK_process(ds)
      [] strategy = "MRAVR_BRAIN" -> MRAVR_BRAIN_process(ds)
      [] strategy = "MRAVR_NECK" -> MRAVR_NECK_process(ds)
      [] strategy = "T1" -> T1_process(ds)
      [] strategy = "T2" -> T2_process(ds)
      [] strategy = "ASL" -> ASL_process(ds)
      [] strategy = "DSC" -> DSC_process(ds)
      [] strategy = "CVR" -> CVR_process(ds)
      [] strategy = "RESTING" -> RESTING_process(ds)
      [] strategy = "DTI" -> DTI_process(ds)

\* the two tests of the dispatcher's loop: modality and acquisition type
Consults(strategy, ds) ==
    /\ ModalityProcessingStrategy(ds).val = StrategyModality(strategy)
    /\ InSeq(MRAcquisitionTypeProcessingStrategy(ds).val, mr_acquisition_type(strategy))

\* the loop of determine_series_name: the first non-NULL verdict of a
\* consulted strategy; a strategy's exception ends the loop
RECURSIVE DispatchLoop(_, _)
DispatchLoop(ds, strategies) ==
    IF strategies = << >> THEN Ok(NULL)
    ELSE IF ~Consults(Head(strategies), ds) THEN DispatchLoop(ds, Tail(strategies))
    ELSE IF StrategyProcess(Head(strategies), ds).exc THEN Raise
    ELSE IF StrategyProcess(Head(strategies), ds).val # NULL
         THEN StrategyProcess(Head(strategies), ds)
    ELSE DispatchLoop(ds, Tail(strategies))

\* determine_series_name whose handler returns a placeholder name
determine_series_name_placeholder(ds, strategies) ==
    IF DispatchLoop(ds, strategies).exc THEN "UNKNOWN"
    ELSE EnumValue(DispatchLoop(ds, strategies).val)

\* DicomRenameManager.determine_series_name: "" when nothing matched or an
\* exception was caught
determine_series_name(ds, strategies) ==
    IF DispatchLoop(ds, strategies).exc THEN ""
    ELSE EnumValue(DispatchLoop(ds, strategies).val)

\* DicomRenameManager.get_study_folder_name: None is Absent
get_study_folder_name(ds) ==
    IF ds.Modality = Absent \/ ds.PatientID = Absent \/ ds.AccessionNumber = Absent
    THEN Absent    \* KeyError caught
    ELSE IF ds.SeriesDate = Absent THEN Absent
    ELSE ds.PatientID \o "_" \o ds.SeriesDate \o "_" \o ds.Modality
            \o "_" \o ds.AccessionNumber

-----------------------------------------------------------------------------
(* The original engine (src/convert/dicom_rename_mr.py, base.py), where    *)
(* it differs from the refactored one.  Its extractors have no handlers:   *)
(* an exception leaves the extractor.                                      *)

\* ConvertManager.processing_strategy_list
legacy_processing_strategy_list ==
    << "DWI", "ADC", "eADC", "SWAN", "eSWAN", "MRA_BRAIN", "MRA_NECK",
       "MRAVR_BRAIN", "MRAVR_NECK", "T1", "T2", "ASL", "DSC", "RESTING",
       "CVR", "DTI" >>

\* <strategy>.mr_acquisition_type of the original engine
legacy_mr_acquisition_type(strategy) ==
    CASE strategy = "DWI" -> <<Acq("2D")>>
      [] strategy = "ADC" -> <<Acq("2D"), NULL>>
      [] strategy = "eADC" -> <<Acq("3D"), NULL>>
      [] strategy \in {"SWAN", "eSWAN", "MRA_BRAIN", "MRA_NECK", "MRAVR_BRAIN",
                       "MRAVR_NECK"} -> <<Acq("3D")>>
      [] strategy = "T1" -> <<Acq("3D"), Acq("2D")>>
      [] strategy = "T2" -> <<Acq("2D"), Acq("3D")>>
      [] strategy = "ASL" -> <<Acq("3D"), NULL>>
      [] strategy = "DSC" -> <<Acq("2D"), NULL>>
      [] strategy \in {"CVR", "RESTING", "DTI"} -> <<Acq("2D")>>

\* ImageOrientationProcessingStrategy.process of the original engine
legacy_ImageOrientationProcessingStrategy(ds) ==
    LET v == ds.ImageOrientationPatient
        image_orientation_abs == [i \in 1..Len(v) |-> AbsInt(RoundHundredths(v[i]))]
        pair == {ArgSortLast(image_orientation_abs) - 1,
                 ArgSortSecondLast(image_orientation_abs) - 1}
    IN  IF v = << >> THEN Ok(NULL)
        ELSE IF Len(v) < 2 THEN Raise    \* index_sort[-2]: IndexError
        ELSE IF pair = {0, 5} THEN Ok(Ori("COR"))
        ELSE IF pair = {1, 5} THEN Ok(Ori("SAG"))
        ELSE IF pair = {0, 4} THEN Ok(Ori("AXI"))
        ELSE Ok(NULL)

\* DwiProcessingStrategy.get_image_orientation of the original engine:
\* image_type[2] is read unguarded
legacy_get_image_orientation(ds) ==
    LET image_orientation == legacy_ImageOrientationProcessingStrategy(ds)
    IN  IF image_orientation.exc THEN Raise
        ELSE IF ds.ImageType = << >> \/ Len(ds.ImageType) < 3 THEN Raise
        ELSE IF ds.ImageType[3] = "REFORMATTED"
             THEN Ok(reformatted_mapping(image_orientation.val))
        ELSE image_orientation

\* DwiProcessingStrategy.get_b_values of the original engine
legacy_get_b_values(ds) ==
    IF ds.BValues = << >> THEN Ok(NULL)
    ELSE IF ~IsNumeral(ds.BValues[1]) THEN Raise    \* int(): ValueError
    ELSE IF NumeralValue[ds.BValues[1]] = 0 THEN Ok(MRS("B_VALUES_0"))
    ELSE IF NumeralValue[ds.BValues[1]] = 1000 THEN Ok(MRS("B_VALUES_1000"))
    ELSE Ok(NULL)

\* the first rule whose required set equals the bag
RECURSIVE FirstRuleEqual(_, _)
FirstRuleEqual(series_group_set, rename_dict) ==
    IF rename_dict = << >> THEN NULL
    ELSE IF series_group_set = Head(rename_dict).required_set
         THEN Head(rename_dict).rename_enum
    ELSE FirstRuleEqual(series_group_set, Tail(rename_dict))

\* DwiProcessingStrategy.type_process of the original engine: the DWI
\* marker is put in the bag
legacy_DWI_type_process(ds) ==
    LET results == <<legacy_get_image_orientation(ds), legacy_get_b_values(ds)>>
        series_group_set == {MRS("DWI")} \cup BagOf(results)
    IN  IF ds.SeriesDescription = NoDescription THEN Raise    \* None.value
        ELSE IF ~ContainsAny(ds.SeriesDescription, {W_DWI, W_AUTODIFF}) THEN Ok(NULL)
        ELSE IF AnyRaised(results) THEN Raise
        ELSE Ok(FirstRuleEqual(series_group_set, DWI_type_2d_series_rename_dict))

\* DwiProcessingStrategy.process of the original engine
legacy_DWI_process(ds) ==
    IF MRAcquisitionTypeProcessingStrategy(ds).val = Acq("2D")
    THEN legacy_DWI_type_process(ds)
    ELSE Ok(NULL)

\* T1ProcessingStrategy.get_flair of the original engine; the pair
\* (T1, FLAIR) is a 2-tuple
legacy_get_flair(ds) ==
    LET tr == NumeralValue[ds.RepetitionTime]
        te == NumeralValue[ds.EchoTime]
    IN  IF ds.RepetitionTime = Absent \/ ds.EchoTime = Absent THEN Raise  \* KeyError
        ELSE IF ~IsNumeral(ds.RepetitionTime) \/ ~IsNumeral(ds.EchoTime)
             THEN Raise    \* float(): ValueError
        ELSE IF 800 <= tr /\ tr <= 3000 /\ te <= 30
             THEN [exc |-> FALSE, val |-> <<T1E("T1"), Ser("FLAIR")>>]
        ELSE IF tr <= 800 /\ te <= 30 THEN Ok(T1E("T1"))
        ELSE Ok(NULL)

\* ConvertManager.get_study_folder_name: raises on a missing Modality,
\* PatientID or AccessionNumber
legacy_get_study_folder_name(ds) ==
    IF ds.Modality = Absent \/ ds.PatientID = Absent \/ ds.AccessionNumber = Absent
    THEN [exc |-> TRUE, val |-> Absent]
    ELSE IF ds.StudyDate = Absent THEN [exc |-> FALSE, val |-> Absent]
    ELSE [exc |-> FALSE,
          val |-> ds.PatientID \o "_" \o ds.StudyDate \o "_" \o ds.Modality
                    \o "_" \o ds.AccessionNumber]

-----------------------------------------------------------------------------
(* Datasets.  Orientation cosines are in hundredths.                       *)

IOP_AXI == <<100, 0, 0, 0, 100, 0>>
IOP_SAG == <<0, 100, 0, 0, 0, -100>>
IOP_COR == <<100, 0, 0, 0, 0, -100>>
IOP_OBLIQUE == <<71, 71, 0, 0, 0, -100>>
IOP_SHORT == <<100>>
IOP_ABSENT == << >>

Orientations == {IOP_AXI, IOP_SAG, IOP_COR, IOP_OBLIQUE, IOP_SHORT, IOP_ABSENT}

ImageTypes ==
    { << >>,
      <<"ORIGINAL", "PRIMARY", "OTHER">>,
      <<"DERIVED", "SECONDARY", "REFORMATTED">>,
      <<"DERIVED", "PRIMARY", "MIN IP">> }

Modalities == {"MR", "CT", Absent}
AcquisitionTypes == {"2D", "3D", Absent}

BaseDataset ==
    [ Modality |-> "MR", MRAcquisitionType |-> "2D",
      SeriesDescription |-> D_AX_T1, ImageType |-> <<"ORIGINAL", "PRIMARY", "OTHER">>,
      ImageOrientationPatient |-> IOP_AXI, ContrastBolusAgent |-> Absent,
      BValues |-> << >>, RepetitionTime |-> Absent, EchoTime |-> Absent,
      InversionTime |-> Absent, InstanceCreationTime |-> Absent,
      PatientID |-> "P1", StudyDate |-> "20240101", SeriesDate |-> "20240101",
      AccessionNumber |-> "A1" ]

\* description, image type, orientation and contrast, under every modality
\* and acquisition type
StructuralDatasets ==
    { [BaseDataset EXCEPT !.Modality = m, !.MRAcquisitionType = a,
                          !.SeriesDescription = d, !.ImageType = t,
                          !.ImageOrientationPatient = o, !.ContrastBolusAgent = c] :
        m \in Modalities, a \in AcquisitionTypes,
        d \in Descriptions \cup {NoDescription}, t \in ImageTypes,
        o \in Orientations, c \in {Absent, "GD"} }

\* the b-value tag (0043,1039)
DiffusionDatasets ==
    { [BaseDataset EXCEPT !.MRAcquisitionType = a, !.SeriesDescription = d,
                          !.ImageType = t, !.ImageOrientationPatient = o,
                          !.BValues = b] :
        a \in AcquisitionTypes, d \in {D_AX_DWI, D_DWI_ADC, D_ADC, D_EADC},
        t \in ImageTypes, o \in Orientations,
        b \in {<<"0">>, <<"1000">>, <<"500">>, <<"N/A">>} }

\* repetition, echo and inversion time
TimingDatasets ==
    { [BaseDataset EXCEPT !.MRAcquisitionType = a, !.SeriesDescription = d,
                          !.RepetitionTime = tr, !.EchoTime = te,
                          !.InversionTime = ti] :
        a \in AcquisitionTypes,
        d \in {D_RESTING, D_CVR_2000_EAR, D_CVR_REST, D_DTI_64, D_AX_T1, D_AX_T1_FLAIR,
               D_AX_T2, D_AX_T2_FLAIR},
        tr \in {Absent, "500", "1000", "2000", "5000", "N/A"},
        te \in {Absent, "20", "100", "N/A"},
        ti \in {Absent, "2000"} }

\* instance creation time
CreationTimeDatasets ==
    { [BaseDataset EXCEPT !.MRAcquisitionType = "3D", !.SeriesDescription = d,
                          !.ImageType = t, !.ImageOrientationPatient = o,
                          !.InstanceCreationTime = "120000"] :
        d \in {D_AX_SWAN, D_AX_SWAN_MIP}, t \in ImageTypes, o \in Orientations }

\* the tags of the study identifier
IdentityDatasets ==
    { [BaseDataset EXCEPT !.Modality = m, !.PatientID = p, !.StudyDate = sd,
                          !.SeriesDate = rd, !.AccessionNumber = an] :
        m \in Modalities, p \in {Absent, "P1"}, sd \in {Absent, "20240101"},
        rd \in {Absent, "20240101", "20240102"}, an \in {Absent, "A1"} }

Datasets ==
    StructuralDatasets \cup DiffusionDatasets \cup TimingDatasets
        \cup CreationTimeDatasets \cup IdentityDatasets

-----------------------------------------------------------------------------
(* The output tree and the steps of process_single_dicom_file              *)
(* (managers/dicom_rename_manager.py).  A path is a sequence of names.    *)

\* DicomRenameManager.output_path
output_path == <<"output">>

\* DicomRenameManager.get_output_study_path: None is Absent
get_output_study_path(ds) ==
    LET name == get_study_folder_name(ds)
    IN  IF name = Absent THEN Absent
        ELSE IF output_path[Len(output_path)] = name THEN output_path
        ELSE Append(output_path, name)

\* Path.mkdir(parents=True, exist_ok=True): the directory and its ancestors
mkdir_parents(path) == {SubSeq(path, 1, n) : n \in 1..Len(path)}

-----------------------------------------------------------------------------
(* Classification of one dataset.                                          *)

\* the defaults of the settings in Config
DefaultOfDEFAULT_WORKER_COUNT == 4

DefaultOfMAX_WORKER_COUNT == 8

DefaultOfMIN_WORKER_COUNT == 1

\* no manager has been asked for a pool; the settings are the defaults
IdlePool ==
    /\ DEFAULT_WORKER_COUNT = DefaultOfDEFAULT_WORKER_COUNT
    /\ MAX_WORKER_COUNT = DefaultOfMAX_WORKER_COUNT
    /\ MIN_WORKER_COUNT = DefaultOfMIN_WORKER_COUNT
    /\ pool_pc = "start"
    /\ requested = 0
    /\ count_requested = FALSE
    /\ worker_count = 0
    /\ max_workers = 0
    /\ pool_origin = "none"

\* no normalizer has been called on its own
IdleNormalizer ==
    /\ norm_family = "DWI"
    /\ norm_folder = << >>
    /\ norm_pc = "idle"
    /\ norm_entry = << >>
    /\ norm_kept = << >>

\* NiftiPostProcessManager.__init__
default_processing_strategies == <<"DWI", "ADC", "SWAN", "T1", "T2">>

IdleNifti ==
    /\ iterdir_order = "ascending"
    /\ processing_strategies = default_processing_strategies
    /\ study_paths = << >>
    /\ post_pc = "idle"
    /\ study_index = 0
    /\ strategy_index = 0
    /\ post_log = << >>
    /\ manager_ops = 0
    /\ run_outcomes = << >>
    /\ run_start = << >>
    /\ lost = {}

\* no worker thread is inside a strategy
IdleWorkers ==
    /\ engine = "refactored"
    /\ series_group_fn_list = << >>
    /\ worker_pc = << >>
    /\ worker_ds = << >>
    /\ worker_index = << >>
    /\ worker_results = << >>
    /\ worker_verdict = << >>

\* no dataset is under classification
IdleClassification ==
    /\ dicom_ds = BaseDataset
    /\ pc = "idle"
    /\ series_name = ""
    /\ study_folder_name = Absent
    /\ raised = FALSE

IdleRun ==
    /\ dicom_files = << >>
    /\ submitted = 0
    /\ task_pc = << >>
    /\ task_study = << >>
    /\ task_series = << >>
    /\ task_exists = << >>
    /\ task_result = << >>
    /\ dirs = {}
    /\ files = {}
    /\ collected = 0
    /\ successful_count = 0
    /\ failed_count = 0

Init ==
    /\ processing_strategy_list = create_all_mr_strategies
    /\ dicom_ds \in Datasets
    /\ pc = "read"
    /\ series_name = ""
    /\ study_folder_name = Absent
    /\ raised = FALSE
    /\ IdleRun
    /\ IdleWorkers
    /\ IdleNifti
    /\ IdlePool
    /\ IdleNormalizer

\* self.get_study_folder_name(dicom_ds)
GetStudyFolderName ==
    /\ pc = "read"
    /\ study_folder_name' = get_study_folder_name(dicom_ds)
    /\ pc' = "named"
    /\ UNCHANGED <<processing_strategy_list, worker_vars, nifti_vars, pool_vars, norm_vars, dicom_ds, series_name, raised, rename_vars>>

\* self.determine_series_name(dicom_ds)
DetermineSeriesName ==
    /\ pc = "named"
    /\ series_name' = determine_series_name(dicom_ds, processing_strategy_list)
    /\ raised' = DispatchLoop(dicom_ds, processing_strategy_list).exc
    /\ pc' = "classified"
    /\ UNCHANGED <<processing_strategy_list, worker_vars, nifti_vars, pool_vars, norm_vars, dicom_ds, study_folder_name, rename_vars>>

Next == GetStudyFolderName \/ DetermineSeriesName

Spec == Init /\ [][Next]_vars

-----------------------------------------------------------------------------
(* Properties of the classification of one dataset.                        *)

\* position of a strategy in a list of strategies
IndexOf(strategy, strategies) ==
    CHOOSE k \in 1..Len(strategies) : strategies[k] = strategy

\* a strategy accepts the dataset and its process returns a verdict
YieldsVerdict(strategy, ds) ==
    /\ Consults(strategy, ds)
    /\ ~StrategyProcess(strategy, ds).exc
    /\ StrategyProcess(strategy, ds).val # NULL

\* no strategy registered before the given one ends the dispatcher's loop
NoneDecidesBefore(strategy, ds, strategies) ==
    \A k \in 1..(IndexOf(strategy, strategies) - 1) :
        Consults(strategies[k], ds) =>
            /\ ~StrategyProcess(strategies[k], ds).exc
            /\ StrategyProcess(strategies[k], ds).val = NULL

\* the verdict of the first strategy, in list order, that yields one
RECURSIVE FirstVerdict(_, _)
FirstVerdict(ds, strategies) ==
    IF strategies = << >> THEN NULL
    ELSE IF YieldsVerdict(Head(strategies), ds)
         THEN StrategyProcess(Head(strategies), ds).val
    ELSE FirstVerdict(ds, Tail(strategies))

\* C1: for any dataset the dispatcher returns the verdict of the first
\* strategy, in registration order among those whose modality and
\* acquisition type accept the dataset, that yields a non-empty verdict.
C1_FirstNonEmptyVerdictWins ==
    pc = "classified" =>
        series_name = EnumValue(FirstVerdict(dicom_ds, processing_strategy_list))

\* C2: the registration order is DWI, ADC, eADC, SWAN, eSWAN, MRA-Brain,
\* MRA-Neck, MRA-VR-Brain, MRA-VR-Neck, T1, T2, ASL, DSC, Resting, CVR, DTI:
\* Resting is consulted before CVR, SWAN and eSWAN before T1.
C2_CanonicalRegistrationOrder ==
    /\ processing_strategy_list =
          << "DWI", "ADC", "eADC", "SWAN", "eSWAN", "MRA_BRAIN", "MRA_NECK",
             "MRAVR_BRAIN", "MRAVR_NECK", "T1", "T2", "ASL", "DSC", "RESTING",
             "CVR", "DTI" >>
    /\ IndexOf("RESTING", processing_strategy_list)
          < IndexOf("CVR", processing_strategy_list)
    /\ IndexOf("SWAN", processing_strategy_list) < IndexOf("T1", processing_strategy_list)
    /\ IndexOf("eSWAN", processing_strategy_list) < IndexOf("T1", processing_strategy_list)

\* the attribute bag of the T1 strategy for a 2D dataset
T1_2d_group_results(ds) ==
    {match_series_pattern(ds.SeriesDescription, T1_type_2d_series_rename_mapping)}
        \cup BagOf(T1_attribute_extractors(ds))

\* the rules of a rule list that a bag satisfies
SatisfiedRules(group_results, rename_dict) ==
    {k \in 1..Len(rename_dict) : rename_dict[k].required_set \subseteq group_results}

\* the dataset is a 2D MR series that the T1 strategy decides
DecidedByT1_2d(ds) ==
    /\ ModalityProcessingStrategy(ds).val = Mod("MR")
    /\ MRAcquisitionTypeProcessingStrategy(ds).val = Acq("2D")
    /\ match_series_pattern(ds.SeriesDescription, T1_type_2d_series_rename_mapping) # NULL
    /\ ~AnyRaised(T1_attribute_extractors(ds))
    /\ SatisfiedRules(T1_2d_group_results(ds), T1_type_2d_series_rename_dict) # {}
    /\ NoneDecidesBefore("T1", ds, processing_strategy_list)

\* C3: when two rules of the matched strategy are both satisfied by the
\* attribute bag, the verdict is that of the rule with the larger required
\* set; a 2D T1 bag {T1, FLAIR, AXI, NE} gives T1FLAIR_AXI, not T1_AXI.
C3_LargestSatisfiedRuleFires ==
    (pc = "classified" /\ DecidedByT1_2d(dicom_ds)) =>
        LET rename_dict == T1_type_2d_series_rename_dict
            satisfied == SatisfiedRules(T1_2d_group_results(dicom_ds), rename_dict)
        IN  /\ \E k \in satisfied :
                  /\ series_name = EnumValue(rename_dict[k].rename_enum)
                  /\ \A j \in satisfied :
                        Cardinality(rename_dict[j].required_set)
                            <= Cardinality(rename_dict[k].required_set)
            /\ T1_2d_group_results(dicom_ds)
                    = {T1E("T1"), Ser("FLAIR"), Ori("AXI"), Con("NE")}
                  => series_name = "T1FLAIR_AXI"

\* the pattern mapping, the rule list and the extractor results a strategy
\* uses for the dataset's acquisition type
StrategyRules(strategy, ds) ==
    LET is_2d == MRAcquisitionTypeProcessingStrategy(ds).val = Acq("2D")
    IN  CASE strategy = "SWAN" ->
               [mapping |-> SWAN_series_rename_mapping,
                dict |-> IF is_2d THEN SWAN_type_2d_series_rename_dict
                         ELSE SWAN_type_3d_series_rename_dict,
                results |-> <<get_image_orientation(ds), SWAN_get_series_type(ds)>>]
          [] strategy = "T1" ->
               [mapping |-> IF is_2d THEN T1_type_2d_series_rename_mapping
                            ELSE T1_type_3d_series_rename_mapping,
                dict |-> IF is_2d THEN T1_type_2d_series_rename_dict
                         ELSE T1_type_3d_series_rename_dict,
                results |-> T1_attribute_extractors(ds)]
          [] strategy = "T2" ->
               [mapping |-> IF is_2d THEN T2_type_2d_series_rename_mapping
                            ELSE T2_type_3d_series_rename_mapping,
                dict |-> IF is_2d THEN T2_type_2d_series_rename_dict
                         ELSE T2_type_3d_series_rename_dict,
                results |-> T2_attribute_extractors(ds)]
          [] strategy = "CVR" ->
               [mapping |-> CVR_series_rename_mapping,
                dict |-> CVR_type_2d_series_rename_dict,
                results |-> <<get_repetition_time(ds), get_body_part_from_description(ds)>>]

\* the family of the strategy's pattern that matches the description
MatchedFamily(strategy, ds) ==
    match_series_pattern(ds.SeriesDescription, StrategyRules(strategy, ds).mapping)

\* the strategy is consulted, its pattern matches, and the bag of the values
\* its extractors return satisfies none of the given rules
PatternMatchedNoRule(strategy, ds, rules) ==
    /\ Consults(strategy, ds)
    /\ MatchedFamily(strategy, ds) # NULL
    /\ \A k \in rules :
          ~(StrategyRules(strategy, ds).dict[k].required_set \subseteq
                {MatchedFamily(strategy, ds)} \cup BagOf(StrategyRules(strategy, ds).results))

AllRules(strategy, ds) == 1..Len(StrategyRules(strategy, ds).dict)

\* the rules that require more than the family itself
SpecificRules(strategy, ds) ==
    {k \in AllRules(strategy, ds) :
        Cardinality(StrategyRules(strategy, ds).dict[k].required_set) > 1}

C5_DWI0AndDWI1000 ==
    (/\ pc = "classified"
     /\ dicom_ds.Modality = "MR"
     /\ dicom_ds.MRAcquisitionType = "2D"
     /\ ContainsAny(dicom_ds.SeriesDescription, {W_DWI, W_AUTODIFF})
     /\ dicom_ds.BValues # << >>
     /\ get_image_orientation(dicom_ds) = Ok(Ori("AXI")))
        => /\ dicom_ds.BValues[1] = "0" => series_name = "DWI0"
           /\ dicom_ds.BValues[1] = "1000" => series_name = "DWI1000"

\* C6: a dataset without acquisition type gets a verdict only from the ADC,
\* eADC or DSC strategy; each of the three accepts Null and no other does.
C6_NullAcquisitionOnlyADCeADCDSC ==
    (pc = "classified" /\ MRAcquisitionTypeProcessingStrategy(dicom_ds).val = NULL) =>
        \A k \in 1..Len(processing_strategy_list) :
            LET strategy == processing_strategy_list[k]
            IN  /\ YieldsVerdict(strategy, dicom_ds) => strategy \in {"ADC", "eADC", "DSC"}
                /\ InSeq(NULL, mr_acquisition_type(strategy))
                      <=> strategy \in {"ADC", "eADC", "DSC"}
                /\ InSeq(NULL, legacy_mr_acquisition_type(strategy))
                      <=> strategy \in {"ADC", "eADC", "DSC"}

\* C8: every attribute extractor returns a value on every dataset, also when
\* a tag it reads is missing or malformed; none raises.
C8_ExtractorsNeverRaise ==
    \A result \in
        { ModalityProcessingStrategy(dicom_ds),
          MRAcquisitionTypeProcessingStrategy(dicom_ds),
          ImageOrientationProcessingStrategy(dicom_ds),
          get_image_orientation(dicom_ds),
          ContrastProcessingStrategy(dicom_ds),
          DWI_get_b_values(dicom_ds),
          get_repetition_time(dicom_ds),
          get_body_part_from_description(dicom_ds),
          SWAN_get_series_type(dicom_ds),
          get_mip_info(dicom_ds),
          get_original_info(dicom_ds),
          T1_get_series_type(dicom_ds),
          T2_get_series_type(dicom_ds),
          get_dti_directions(dicom_ds),
          legacy_ImageOrientationProcessingStrategy(dicom_ds),
          legacy_get_image_orientation(dicom_ds),
          legacy_get_b_values(dicom_ds),
          legacy_get_flair(dicom_ds) } :
        ~result.exc

\* C9: the study identifier PatientID_StudyDate_Modality_AccessionNumber is
\* produced exactly when the four tags are present; otherwise there is none.
C9_StudyIdentifierIffFourTags ==
    pc \in {"named", "classified"} =>
        IF /\ dicom_ds.PatientID # Absent
           /\ dicom_ds.StudyDate # Absent
           /\ dicom_ds.Modality # Absent
           /\ dicom_ds.AccessionNumber # Absent
        THEN study_folder_name =
                dicom_ds.PatientID \o "_" \o dicom_ds.StudyDate \o "_"
                    \o dicom_ds.Modality \o "_" \o dicom_ds.AccessionNumber
        ELSE study_folder_name = Absent

-----------------------------------------------------------------------------
(* A run of DicomRenameManager: _process_with_executor submits one         *)
(* process_single_dicom_file call per input file to the thread pool and    *)
(* then collects the futures in submission order.  The calls run           *)
(* concurrently; each step below is one call's next statement.             *)

MaxFiles == 2

\* an MR 3D SWAN series whose ImageOrientationPatient has one element
DS_SWAN_MALFORMED ==
    [BaseDataset EXCEPT !.MRAcquisitionType = "3D", !.SeriesDescription = D_AX_SWAN,
                        !.ImageOrientationPatient = IOP_SHORT]

\* a series no strategy recognises
DS_LOCALIZER == [BaseDataset EXCEPT !.SeriesDescription = D_LOCALIZER]

\* an ADC series of another study
DS_ADC_OTHER_STUDY ==
    [BaseDataset EXCEPT !.SeriesDescription = D_ADC, !.StudyDate = "20240102",
                        !.SeriesDate = "20240102"]

\* datasets without one of the tags of the study identifier
DS_NO_SERIES_DATE == [BaseDataset EXCEPT !.SeriesDate = Absent]

DS_NO_PATIENT_ID == [BaseDataset EXCEPT !.PatientID = Absent]

RunDatasets ==
    { BaseDataset, DS_SWAN_MALFORMED, DS_LOCALIZER, DS_ADC_OTHER_STUDY,
      DS_NO_SERIES_DATE, DS_NO_PATIENT_ID }

FileNames == {"IM1.dcm", "IM2.dcm"}

\* an input file: its name, whether dcmread can parse it, and its dataset
RunFiles ==
    { [name |-> n, readable |-> TRUE, ds |-> d] :
        n \in FileNames, d \in {BaseDataset, DS_ADC_OTHER_STUDY} }
        \cup { [name |-> "IM1.dcm", readable |-> TRUE, ds |-> d] : d \in RunDatasets }
        \cup { [name |-> "IM1.dcm", readable |-> FALSE, ds |-> BaseDataset] }

Tasks == 1..Len(dicom_files)

InitRename ==
    /\ processing_strategy_list = create_all_mr_strategies
    /\ IdleClassification
    /\ IdleWorkers
    /\ IdleNifti
    /\ IdlePool
    /\ IdleNormalizer
    /\ dicom_files \in UNION {[1..n -> RunFiles] : n \in 1..MaxFiles}
    /\ submitted = 0
    /\ task_pc = [i \in Tasks |-> "unsubmitted"]
    /\ task_study = [i \in Tasks |-> Absent]
    /\ task_series = [i \in Tasks |-> ""]
    /\ task_exists = [i \in Tasks |-> FALSE]
    /\ task_result = [i \in Tasks |-> "none"]
    /\ dirs = {}
    /\ files = {}
    /\ collected = 0
    /\ successful_count = 0
    /\ failed_count = 0

\* a return statement of process_single_dicom_file
Return(i, result) ==
    /\ task_pc' = [task_pc EXCEPT ![i] = "returned"]
    /\ task_result' = [task_result EXCEPT ![i] = result]

\* executor.submit(self.process_single_dicom_file, dicom_file)
Submit ==
    /\ submitted < Len(dicom_files)
    /\ submitted' = submitted + 1
    /\ task_pc' = [task_pc EXCEPT ![submitted + 1] = "dcmread"]
    /\ UNCHANGED <<processing_strategy_list, worker_vars, nifti_vars, pool_vars, norm_vars, classify_vars, dicom_files, task_study,
                   task_series, task_exists, task_result, dirs, files, collected,
                   successful_count, failed_count>>

\* dcmread(...): InvalidDicomError is handled by returning False
TaskRead(i) ==
    /\ task_pc[i] = "dcmread"
    /\ IF dicom_files[i].readable
       THEN /\ task_pc' = [task_pc EXCEPT ![i] = "get_output_study_path"]
            /\ UNCHANGED task_result
       ELSE Return(i, "False")
    /\ UNCHANGED <<processing_strategy_list, worker_vars, nifti_vars, pool_vars, norm_vars, classify_vars, dicom_files, submitted,
                   task_study, task_series, task_exists, dirs, files, collected,
                   successful_count, failed_count>>

\* output_study_path = self.get_output_study_path(dicom_ds)
TaskGetOutputStudyPath(i) ==
    /\ task_pc[i] = "get_output_study_path"
    /\ task_study' = [task_study EXCEPT ![i] = get_output_study_path(dicom_files[i].ds)]
    /\ IF get_output_study_path(dicom_files[i].ds) = Absent
       THEN Return(i, "False")
       ELSE /\ task_pc' = [task_pc EXCEPT ![i] = "determine_series_name"]
            /\ UNCHANGED task_result
    /\ UNCHANGED <<processing_strategy_list, worker_vars, nifti_vars, pool_vars, norm_vars, classify_vars, dicom_files, submitted,
                   task_series, task_exists, dirs, files, collected,
                   successful_count, failed_count>>

\* the classification step without the early return on an empty series name
TaskDetermineSeriesName_no_early_return(i) ==
    /\ task_pc[i] = "determine_series_name"
    /\ task_series' = [task_series EXCEPT ![i] =
            determine_series_name(dicom_files[i].ds, processing_strategy_list)]
    /\ task_pc' = [task_pc EXCEPT ![i] = "mkdir_study"]
    /\ UNCHANGED <<processing_strategy_list, worker_vars, nifti_vars, pool_vars, norm_vars, classify_vars, dicom_files, submitted,
                   task_study, task_exists, task_result, dirs, files, collected,
                   successful_count, failed_count>>

\* series_name = self.determine_series_name(dicom_ds)
TaskDetermineSeriesName(i) ==
    /\ task_pc[i] = "determine_series_name"
    /\ task_series' = [task_series EXCEPT ![i] =
            determine_series_name(dicom_files[i].ds, processing_strategy_list)]
    /\ IF determine_series_name(dicom_files[i].ds, processing_strategy_list) = ""
       THEN Return(i, "False")
       ELSE /\ task_pc' = [task_pc EXCEPT ![i] = "mkdir_study"]
            /\ UNCHANGED task_result
    /\ UNCHANGED <<processing_strategy_list, worker_vars, nifti_vars, pool_vars, norm_vars, classify_vars, dicom_files, submitted,
                   task_study, task_exists, dirs, files, collected,
                   successful_count, failed_count>>

\* output_study_path.mkdir(parents=True, exist_ok=True)
TaskMkdirStudy(i) ==
    /\ task_pc[i] = "mkdir_study"
    /\ dirs' = dirs \cup mkdir_parents(task_study[i])
    /\ task_pc' = [task_pc EXCEPT ![i] = "mkdir_series"]
    /\ UNCHANGED <<processing_strategy_list, worker_vars, nifti_vars, pool_vars, norm_vars, classify_vars, dicom_files, submitted,
                   task_study, task_series, task_exists, task_result, files,
                   collected, successful_count, failed_count>>

\* output_series_path.mkdir(exist_ok=True)
TaskMkdirSeries(i) ==
    /\ task_pc[i] = "mkdir_series"
    /\ dirs' = dirs \cup {Append(task_study[i], task_series[i])}
    /\ task_pc' = [task_pc EXCEPT ![i] = "exists"]
    /\ UNCHANGED <<processing_strategy_list, worker_vars, nifti_vars, pool_vars, norm_vars, classify_vars, dicom_files, submitted,
                   task_study, task_series, task_exists, task_result, files,
                   collected, successful_count, failed_count>>

\* the path of the copy: output_series_path / dicom_file_path.name
output_file_path(i) ==
    Append(Append(task_study[i], task_series[i]), dicom_files[i].name)

\* output_file_path.exists()
TaskExists(i) ==
    /\ task_pc[i] = "exists"
    /\ task_exists' = [task_exists EXCEPT ![i] =
            \E f \in files : f.path = output_file_path(i)]
    /\ task_pc' = [task_pc EXCEPT ![i] = "copyfile"]
    /\ UNCHANGED <<processing_strategy_list, worker_vars, nifti_vars, pool_vars, norm_vars, classify_vars, dicom_files, submitted,
                   task_study, task_series, task_result, dirs, files, collected,
                   successful_count, failed_count>>

\* shutil.copyfile(dicom_file_path, output_file_path) when the file did not
\* exist, then return True
TaskCopyFile(i) ==
    /\ task_pc[i] = "copyfile"
    /\ files' = IF task_exists[i] THEN files
                ELSE {f \in files : f.path # output_file_path(i)}
                        \cup {[path |-> output_file_path(i), content |-> i]}
    /\ Return(i, "True")
    /\ UNCHANGED <<processing_strategy_list, worker_vars, nifti_vars, pool_vars, norm_vars, classify_vars, dicom_files, submitted,
                   task_study, task_series, task_exists, dirs, collected,
                   successful_count, failed_count>>

\* result = future.result() of the next future, once all are submitted
Collect ==
    /\ submitted = Len(dicom_files)
    /\ collected < Len(dicom_files)
    /\ task_result[collected + 1] # "none"
    /\ collected' = collected + 1
    /\ IF task_result[collected + 1] = "True"
       THEN /\ successful_count' = successful_count + 1
            /\ UNCHANGED failed_count
       ELSE /\ failed_count' = failed_count + 1
            /\ UNCHANGED successful_count
    /\ UNCHANGED <<processing_strategy_list, worker_vars, nifti_vars, pool_vars, norm_vars, classify_vars, dicom_files, submitted,
                   task_vars, dirs, files>>

NextRename ==
    \/ Submit
    \/ \E i \in Tasks : TaskRead(i)
    \/ \E i \in Tasks : TaskGetOutputStudyPath(i)
    \/ \E i \in Tasks : TaskDetermineSeriesName(i)
    \/ \E i \in Tasks : TaskMkdirStudy(i)
    \/ \E i \in Tasks : TaskMkdirSeries(i)
    \/ \E i \in Tasks : TaskExists(i)
    \/ \E i \in Tasks : TaskCopyFile(i)
    \/ Collect

SpecRename == InitRename /\ [][NextRename]_vars

-----------------------------------------------------------------------------
(* Properties of a run.                                                    *)

\* the call has executed its classification step
Classified(i) ==
    task_pc[i] \in {"mkdir_study", "mkdir_series", "exists", "copyfile"}
        \/ (task_pc[i] = "returned" /\ dicom_files[i].readable /\ task_study[i] # Absent)

\* classifying the file's dataset ends in the handler of determine_series_name
ClassificationRaises(i) ==
    DispatchLoop(dicom_files[i].ds, processing_strategy_list).exc

\* the output paths written by call i
WrittenBy(i) == {f \in files : f.content = i}

\* the file is parsed, has a study identifier and gets a verdict
HasVerdict(i) ==
    /\ dicom_files[i].readable
    /\ get_output_study_path(dicom_files[i].ds) # Absent
    /\ ~ClassificationRaises(i)
    /\ DispatchLoop(dicom_files[i].ds, processing_strategy_list).val # NULL

\* the run has collected every future
RunComplete == collected = Len(dicom_files)

\* C7: classifying a dataset with an unreadable or malformed tag gives the
\* verdict "unclassified": the call returns False without writing anything,
\* the future holds a result and not an exception, the run is never stuck
\* before every future is collected (a file is still to be submitted, a call
\* is still running, or the next future holds its result), and at the end
\* every other instance that has a verdict is in the output tree.
C7_MalformedTagSkipsInstanceOnly ==
    /\ \A i \in Tasks :
          (Classified(i) /\ ClassificationRaises(i)) =>
              /\ task_series[i] = ""
              /\ task_pc[i] = "returned"
              /\ task_result[i] = "False"
              /\ WrittenBy(i) = {}
    /\ ~RunComplete =>
          \/ submitted < Len(dicom_files)
          \/ \E j \in 1..submitted : task_pc[j] # "returned"
          \/ task_result[collected + 1] \in {"True", "False"}
    /\ RunComplete =>
          /\ successful_count + failed_count = Len(dicom_files)
          /\ \A j \in Tasks :
                /\ task_pc[j] = "returned"
                /\ HasVerdict(j) =>
                      /\ task_result[j] = "True"
                      /\ \E f \in files : f.path = output_file_path(j)

\* a run in which one instance's classification raised and another instance
\* was copied to the output tree
C7_Witness ==
    /\ RunComplete
    /\ \E i, j \in Tasks :
          /\ Classified(i) /\ ClassificationRaises(i) /\ task_result[i] = "False"
          /\ HasVerdict(j) /\ WrittenBy(j) # {}

\* no strategy yields a verdict for the file's dataset
NoVerdict(i) ==
    determine_series_name(dicom_files[i].ds, processing_strategy_list) = ""

\* C10: processing an instance for which no strategy yields a verdict creates
\* no study folder, no series folder and no file under the output root: a
\* step that changes the output tree is never a step of such an instance.
C10_UnclassifiedCreatesNothing ==
    [][(dirs' # dirs \/ files' # files) =>
          \A i \in Tasks : task_pc'[i] # task_pc[i] => ~NoVerdict(i)]_vars

\* an instance without verdict has been classified and has returned, and the
\* output tree is empty
C10_Witness ==
    \E i \in Tasks :
        /\ Classified(i) /\ NoVerdict(i) /\ ~ClassificationRaises(i)
        /\ task_pc[i] = "returned"
        /\ dirs = {} /\ files = {}

\* the files written when the calls run one after the other in submission
\* order: a path is written by the first call that reaches it
SequentialFiles ==
    { [path |-> output_file_path(i), content |-> i] :
        i \in {j \in Tasks :
                 /\ HasVerdict(j)
                 /\ \A k \in 1..(j - 1) :
                       HasVerdict(k) => output_file_path(k) # output_file_path(j)} }

\* C12: the output tree does not depend on the schedule of the worker
\* pool: every completed run holds the files, with the contents, that the
\* run with the calls in submission order produces
C12_OutputTreeScheduleIndependent ==
    RunComplete => files = SequentialFiles

\* the call is between its first mkdir and its return: it creates
\* directories and writes files under its study folder
OperatesOnStudy(i) ==
    task_pc[i] \in {"mkdir_study", "mkdir_series", "exists", "copyfile"}

\* C13: two work units that run at the same time never operate on the same
\* study folder
C13_WorkersInDifferentStudies ==
    \A i, j \in Tasks :
        (i # j /\ OperatesOnStudy(i) /\ OperatesOnStudy(j))
            => task_study[i] # task_study[j]

-----------------------------------------------------------------------------
(* Worker threads inside DwiProcessingStrategy.  The strategies are        *)
(* created once and shared by the threads of the executor; the list of    *)
(* group functions is a class attribute filled on first use.  The         *)
(* refactored engine fills it with one list.extend call, the original     *)
(* engine with one list.append call per function.  A step of a worker is  *)
(* one access to the shared list.                                          *)

MaxWorkers == 2

Workers == 1..MaxWorkers

Engines == {"refactored", "legacy"}

\* datasets that reach the DWI strategy, and one that does not match it
WorkerDatasets ==
    { [BaseDataset EXCEPT !.SeriesDescription = d, !.BValues = b] :
        d \in {D_AX_DWI, D_AX_T1}, b \in {<<"0">>, <<"1000">>} }

InitWorkers ==
    /\ processing_strategy_list = create_all_mr_strategies
    /\ IdleClassification
    /\ IdleRun
    /\ IdleNifti
    /\ IdlePool
    /\ IdleNormalizer
    /\ engine \in Engines
    /\ series_group_fn_list = << >>
    /\ worker_pc = [w \in Workers |-> "process"]
    /\ worker_ds \in [Workers -> WorkerDatasets]
    /\ worker_index = [w \in Workers |-> 0]
    /\ worker_results = [w \in Workers |-> << >>]
    /\ worker_verdict = [w \in Workers |-> Ok(NULL)]

\* a return or raise statement of process()
WorkerReturn(w, result) ==
    /\ worker_pc' = [worker_pc EXCEPT ![w] = "returned"]
    /\ worker_verdict' = [worker_verdict EXCEPT ![w] = result]

\* process() up to the pattern match of _process_2d_type / type_process
WorkerProcess(w) ==
    /\ worker_pc[w] = "process"
    /\ LET ds == worker_ds[w]
           accepted == IF engine = "refactored"
                       THEN AcceptedBy(ds, Mod("MR"), DWI_mr_acquisition_type)
                       ELSE MRAcquisitionTypeProcessingStrategy(ds).val = Acq("2D")
       IN  IF ~accepted THEN WorkerReturn(w, Ok(NULL))
           ELSE IF ds.SeriesDescription = NoDescription
                THEN WorkerReturn(w, IF engine = "refactored" THEN Ok(NULL) ELSE Raise)
           ELSE IF ~ContainsAny(ds.SeriesDescription, {W_DWI, W_AUTODIFF})
                THEN WorkerReturn(w, Ok(NULL))
           ELSE /\ worker_pc' = [worker_pc EXCEPT ![w] = "get_series_group_fn_list"]
                /\ UNCHANGED worker_verdict
    /\ UNCHANGED <<processing_strategy_list, classify_vars, rename_vars, nifti_vars, pool_vars, norm_vars, engine,
                   series_group_fn_list, worker_ds, worker_index, worker_results>>

\* get_series_group_fn_list: the test of the list's length
WorkerTestList(w) ==
    /\ worker_pc[w] = "get_series_group_fn_list"
    /\ worker_pc' = [worker_pc EXCEPT ![w] =
                        IF series_group_fn_list # << >> THEN "for"
                        ELSE IF engine = "refactored" THEN "extend"
                        ELSE "append_get_image_orientation"]
    /\ UNCHANGED <<processing_strategy_list, classify_vars, rename_vars, nifti_vars, pool_vars, norm_vars, engine,
                   series_group_fn_list, worker_ds, worker_index, worker_results,
                   worker_verdict>>

\* cls.series_group_fn_list.extend([cls.get_image_orientation, cls.get_b_values])
WorkerExtend(w) ==
    /\ worker_pc[w] = "extend"
    /\ series_group_fn_list' =
           series_group_fn_list \o <<"get_image_orientation", "get_b_values">>
    /\ worker_pc' = [worker_pc EXCEPT ![w] = "for"]
    /\ UNCHANGED <<processing_strategy_list, classify_vars, rename_vars, nifti_vars, pool_vars, norm_vars, engine,
                   worker_ds, worker_index, worker_results, worker_verdict>>

\* cls.series_group_fn_list.append(cls.get_image_orientation), then
\* cls.series_group_fn_list.append(cls.get_b_values)
WorkerAppend(w) ==
    /\ \/ /\ worker_pc[w] = "append_get_image_orientation"
          /\ series_group_fn_list' = Append(series_group_fn_list, "get_image_orientation")
          /\ worker_pc' = [worker_pc EXCEPT ![w] = "append_get_b_values"]
       \/ /\ worker_pc[w] = "append_get_b_values"
          /\ series_group_fn_list' = Append(series_group_fn_list, "get_b_values")
          /\ worker_pc' = [worker_pc EXCEPT ![w] = "for"]
    /\ UNCHANGED <<processing_strategy_list, classify_vars, rename_vars, nifti_vars, pool_vars, norm_vars, engine,
                   worker_ds, worker_index, worker_results, worker_verdict>>

\* group_fn(dicom_ds) for a function taken from the list
CallGroupFn(group_fn, ds) ==
    CASE group_fn = "get_image_orientation" ->
            IF engine = "refactored" THEN get_image_orientation(ds)
            ELSE legacy_get_image_orientation(ds)
      [] group_fn = "get_b_values" ->
            IF engine = "refactored" THEN DWI_get_b_values(ds)
            ELSE legacy_get_b_values(ds)

\* one iteration of the for loop over the shared list: the list iterator
\* reads the list's current length on every step
WorkerGroupFn(w) ==
    /\ worker_pc[w] = "for"
    /\ worker_index[w] < Len(series_group_fn_list)
    /\ LET result == CallGroupFn(series_group_fn_list[worker_index[w] + 1], worker_ds[w])
       IN  IF result.exc
           THEN /\ WorkerReturn(w, Raise)
                /\ UNCHANGED <<worker_index, worker_results>>
           ELSE /\ worker_index' = [worker_index EXCEPT ![w] = @ + 1]
                /\ worker_results' = [worker_results EXCEPT ![w] = Append(@, result)]
                /\ UNCHANGED <<worker_pc, worker_verdict>>
    /\ UNCHANGED <<processing_strategy_list, classify_vars, rename_vars, nifti_vars, pool_vars, norm_vars, engine,
                   series_group_fn_list, worker_ds>>

\* the loop over the rename dict after the for loop has run off the list
WorkerMatch(w) ==
    /\ worker_pc[w] = "for"
    /\ worker_index[w] >= Len(series_group_fn_list)
    /\ WorkerReturn(w,
          IF engine = "refactored"
          THEN Ok(find_matching_rename_enum(BagOf(worker_results[w]),
                                            DWI_type_2d_series_rename_dict))
          ELSE Ok(FirstRuleEqual({MRS("DWI")} \cup BagOf(worker_results[w]),
                                 DWI_type_2d_series_rename_dict)))
    /\ UNCHANGED <<processing_strategy_list, classify_vars, rename_vars, nifti_vars, pool_vars, norm_vars, engine,
                   series_group_fn_list, worker_ds, worker_index, worker_results>>

NextWorkers ==
    \/ \E w \in Workers : WorkerProcess(w)
    \/ \E w \in Workers : WorkerTestList(w)
    \/ \E w \in Workers : WorkerExtend(w)
    \/ \E w \in Workers : WorkerAppend(w)
    \/ \E w \in Workers : WorkerGroupFn(w)
    \/ \E w \in Workers : WorkerMatch(w)

SpecWorkers == InitWorkers /\ [][NextWorkers]_vars

-----------------------------------------------------------------------------
(* Properties of the worker threads.                                       *)

\* C11: two datasets that agree on the tags the engine reads receive the
\* same verdict from the strategy, whatever the other worker threads are
\* doing at the same time and whatever was classified before
C11_VerdictDependsOnlyOnTags ==
    \A w1, w2 \in Workers :
        (/\ worker_pc[w1] = "returned"
         /\ worker_pc[w2] = "returned"
         /\ worker_ds[w1] = worker_ds[w2])
            => worker_verdict[w1] = worker_verdict[w2]

-----------------------------------------------------------------------------
(* NIfTI post-processing (processing/nifti, processing/base.py).  A file   *)
(* name is its base, a sequence of characters, and its extension after    *)
(* the base: "nii.gz" for a volume, "json", "bval" or "bvec" for a        *)
(* sidecar.  A study folder is a function from the names of its files to  *)
(* their contents.                                                         *)

\* the characters of file names, in code-point order
Alphabet ==
    << "0", "1", "2", "3", "4", "5", "6", "7", "8", "9",
       "A", "B", "C", "D", "E", "F", "G", "H", "I", "J", "K", "L", "M",
       "N", "O", "P", "Q", "R", "S", "T", "U", "V", "W", "X", "Y", "Z",
       "_",
       "a", "b", "c", "d", "e", "f", "g", "h", "i", "j", "k", "l", "m",
       "n", "o", "p", "q", "r", "s", "t", "u", "v", "w", "x", "y", "z" >>

Digits == {Alphabet[i] : i \in 1..10}

UpperCase == {Alphabet[i] : i \in 11..36}

LowerCase == {Alphabet[i] : i \in 38..63}

\* Python's ord() of a character
ord(c) ==
    LET i == CHOOSE k \in 1..Len(Alphabet) : Alphabet[k] = c
    IN  IF c \in Digits THEN i + 47
        ELSE IF c \in UpperCase THEN i + 54
        ELSE IF c \in LowerCase THEN i + 59
        ELSE 95

\* str() of a natural number, as characters
RECURSIVE IntToChars(_)
IntToChars(n) ==
    IF n < 10 THEN <<Alphabet[n + 1]>>
    ELSE Append(IntToChars(n \div 10), Alphabet[(n % 10) + 1])

\* a character under re.IGNORECASE
FoldCase(c) ==
    IF c \in LowerCase
    THEN Alphabet[(CHOOSE k \in 1..Len(Alphabet) : Alphabet[k] = c) - 27]
    ELSE c

FoldCaseAll(s) == [i \in 1..Len(s) |-> FoldCase(s[i])]

StartsWith(s, w) == Len(s) >= Len(w) /\ SubSeq(s, 1, Len(w)) = w

\* the characters of s after its first n characters
Drop(s, n) == SubSeq(s, n + 1, Len(s))

\* str.replace(old, new)
RECURSIVE StrReplace(_, _, _)
StrReplace(s, old, new) ==
    IF s = << >> THEN << >>
    ELSE IF StartsWith(s, old) THEN new \o StrReplace(Drop(s, Len(old)), old, new)
    ELSE <<Head(s)>> \o StrReplace(Tail(s), old, new)

\* length of the longest run of [a-z] at the end of s
RECURSIVE TrailingLowerCase(_)
TrailingLowerCase(s) ==
    IF s = << >> \/ s[Len(s)] \notin LowerCase THEN 0
    ELSE 1 + TrailingLowerCase(SubSeq(s, 1, Len(s) - 1))

NiiGz == "nii.gz"

Name(base, ext) == [base |-> base, ext |-> ext]

\* the result of pattern.match(name): << >> when there is no match,
\* otherwise the groups before the extension group
NoMatch == << >>

\* (DWI.*)(\.nii\.gz)$  and  (T1.*)(\.nii\.gz)$  and  (T2.*)(\.nii\.gz)$
PrefixPattern(prefix, name) ==
    IF name.ext = NiiGz /\ StartsWith(name.base, prefix) THEN <<name.base>>
    ELSE NoMatch

\* (DWI.*)(?<![a-z])([a-z]{0,2}?)(\.nii\.gz)$ : the greedy first group
\* ends where the run of lower-case letters at the end of the base
\* begins, and the run has at most two letters
DwiSuffixPattern(name) ==
    LET n == TrailingLowerCase(name.base)
    IN  IF name.ext = NiiGz /\ StartsWith(name.base, <<"D", "W", "I">>) /\ n <= 2
        THEN <<SubSeq(name.base, 1, Len(name.base) - n), Drop(name.base, Len(name.base) - n)>>
        ELSE NoMatch

\* (?<!e)(ADC)([a-z]{0,2}?)(\.nii\.gz)$ and (?<!e)(SWAN)([a-z]{0,2}?)(\.nii\.gz)$
\* under re.IGNORECASE, matched at the start of the name: the family word
\* and at most two letters of either case
WordSuffixPattern(word, name) ==
    LET rest == Drop(name.base, Len(word))
    IN  IF /\ name.ext = NiiGz
           /\ StartsWith(FoldCaseAll(name.base), word)
           /\ Len(rest) <= 2
           /\ \A i \in 1..Len(rest) : rest[i] \in LowerCase \cup UpperCase
        THEN <<SubSeq(name.base, 1, Len(word)), rest>>
        ELSE NoMatch

\* (?<!e)(ADC[a-z]{0,2}?)(\.nii\.gz)$ and the same for SWAN: the pattern
\* of the family, with the letters inside the first group
WordPattern(word, name) ==
    IF WordSuffixPattern(word, name) = NoMatch THEN NoMatch ELSE <<name.base>>

\* (DWI0)(.*\.nii\.gz)$ under re.IGNORECASE
Dwi0Pattern(name) ==
    IF name.ext = NiiGz /\ StartsWith(FoldCaseAll(name.base), <<"D", "W", "I", "0">>)
    THEN <<SubSeq(name.base, 1, 4)>>
    ELSE NoMatch

OrientationTokens == {<<"A", "X", "I">>, <<"C", "O", "R">>, <<"S", "A", "G">>}

\* (T1.*)(AXIr?|CORr?|SAGr?)([a-z]{0,1})(\.nii\.gz)$ : the greedy first
\* group leaves the shortest tail that is a token, an optional r and an
\* optional lower-case letter
OrientationSuffixPattern(prefix, name) ==
    LET b == name.base
        n == Len(b)
        tail(k) == Drop(b, n - k)
        token(k) == SubSeq(tail(k), 1, 3)
        ok(k) == n >= Len(prefix) + k /\ token(k) \in OrientationTokens
    IN  IF name.ext # NiiGz \/ ~StartsWith(b, prefix) THEN NoMatch
        ELSE IF ok(3) THEN <<SubSeq(b, 1, n - 3), tail(3), << >> >>
        ELSE IF ok(4) /\ tail(4)[4] = "r"
             THEN <<SubSeq(b, 1, n - 4), tail(4), << >> >>
        ELSE IF ok(4) /\ tail(4)[4] \in LowerCase
             THEN <<SubSeq(b, 1, n - 4), token(4), <<tail(4)[4]>> >>
        ELSE IF ok(5) /\ tail(5)[4] = "r" /\ tail(5)[5] \in LowerCase
             THEN <<SubSeq(b, 1, n - 5), SubSeq(tail(5), 1, 4), <<tail(5)[5]>> >>
        ELSE NoMatch

\* Config.*_FILE_SIZE_LIMIT, in bytes, and Config.CHAR_OFFSET
SMALL_FILE_SIZE_LIMIT == 102400

MEDIUM_FILE_SIZE_LIMIT == 563200

LARGE_FILE_SIZE_LIMIT == 819200

CHAR_OFFSET == 95

Families == {"DWI", "ADC", "SWAN", "T1", "T2"}

FamilyWord(family) ==
    CASE family = "DWI" -> <<"D", "W", "I">>
      [] family = "ADC" -> <<"A", "D", "C">>
      [] family = "SWAN" -> <<"S", "W", "A", "N">>
      [] family = "T1" -> <<"T", "1">>
      [] family = "T2" -> <<"T", "2">>

\* <family>NiftiProcessingStrategy.pattern.match(name)
pattern(family, name) ==
    IF family \in {"ADC", "SWAN"} THEN WordPattern(FamilyWord(family), name)
    ELSE PrefixPattern(FamilyWord(family), name)

\* <family>NiftiProcessingStrategy.suffix_pattern.match(name)
suffix_pattern(family, name) ==
    IF family \in {"ADC", "SWAN"} THEN WordSuffixPattern(FamilyWord(family), name)
    ELSE IF family = "DWI" THEN DwiSuffixPattern(name)
    ELSE OrientationSuffixPattern(FamilyWord(family), name)

\* <family>NiftiProcessingStrategy.file_size_limit
file_size_limit(family) ==
    CASE family = "DWI" -> MEDIUM_FILE_SIZE_LIMIT
      [] family = "ADC" -> SMALL_FILE_SIZE_LIMIT
      [] family \in {"SWAN", "T1", "T2"} -> LARGE_FILE_SIZE_LIMIT

\* the result of a step on a folder: the folder it leaves, and whether an
\* exception left the step
Done(folder) == [folder |-> folder, exc |-> FALSE]

Raised(folder) == [folder |-> folder, exc |-> TRUE]

\* no new path (None)
None == [base |-> << >>, ext |-> ""]

Extensions == <<"bval", "bvec", "json", "nii.gz">>

\* lexicographic order on sequences of characters
RECURSIVE CharsLess(_, _)
CharsLess(a, b) ==
    IF b = << >> THEN FALSE
    ELSE IF a = << >> THEN TRUE
    ELSE IF Head(a) # Head(b) THEN ord(Head(a)) < ord(Head(b))
    ELSE CharsLess(Tail(a), Tail(b))

NameLess(m, n) ==
    \/ CharsLess(m.base, n.base)
    \/ /\ m.base = n.base
       /\ (CHOOSE i \in 1..4 : Extensions[i] = m.ext)
            < (CHOOSE i \in 1..4 : Extensions[i] = n.ext)

\* the names of a set in ascending order
RECURSIVE Ascending(_)
Ascending(names) ==
    IF names = {} THEN << >>
    ELSE LET first == CHOOSE m \in names : \A n \in names \ {m} : NameLess(m, n)
         IN  <<first>> \o Ascending(names \ {first})

Reverse(s) == [i \in 1..Len(s) |-> s[Len(s) + 1 - i]]

\* study_path.iterdir(): the entries in the order of the directory, which
\* is a fixed order on names
iterdir(folder) ==
    IF iterdir_order = "ascending" THEN Ascending(DOMAIN folder)
    ELSE Reverse(Ascending(DOMAIN folder))

\* the entries of the folder that match the family's pattern
Matching(family, folder) ==
    SelectSeq(iterdir(folder), LAMBDA n : pattern(family, n) # NoMatch)

\* Path.unlink
Unlink(folder, names) == [n \in (DOMAIN folder) \ names |-> folder[n]]

\* Path.rename: an existing file at the new path is replaced
Rename(folder, old, new) ==
    IF old = new THEN folder
    ELSE [n \in ((DOMAIN folder) \ {old}) \cup {new} |->
             IF n = new THEN folder[old] ELSE folder[n]]

\* NiftiPostProcessManager._delete_json_files
delete_json_files(folder) ==
    Unlink(folder, {n \in DOMAIN folder : n.ext = "json"})

\* delete_small_files deleting the files at the limit too
delete_small_files_at_limit(family, folder) ==
    LET small == {n \in DOMAIN folder :
                     /\ pattern(family, n) # NoMatch
                     /\ folder[n].size <= file_size_limit(family)}
    IN  Unlink(folder, small \cup {Name(n.base, "json") : n \in small})

\* NiftiProcessingStrategy.delete_small_files: the volume and its .json
delete_small_files(family, folder) ==
    LET small == {n \in DOMAIN folder :
                     /\ pattern(family, n) # NoMatch
                     /\ folder[n].size < file_size_limit(family)}
    IN  Unlink(folder, small \cup {Name(n.base, "json") : n \in small})

\* rename_related_files moving the .json only
rename_related_files_json_only(folder, old, new) ==
    LET related == {n \in DOMAIN folder : n.ext = "json" /\ n.base = old.base}
        moved == {Name(new.base, n.ext) : n \in related}
    IN  IF old.base = new.base THEN folder
        ELSE [n \in ((DOMAIN folder) \ related) \cup moved |->
                 IF n \in moved THEN folder[Name(old.base, n.ext)] ELSE folder[n]]

\* NiftiProcessingStrategy.rename_related_files: every file whose stem is
\* the old base moves to the new base (the stem of X.nii.gz is X.nii, so
\* the volume itself is not one of them)
rename_related_files(folder, old, new) ==
    LET related == {n \in DOMAIN folder : n.ext # NiiGz /\ n.base = old.base}
        moved == {Name(new.base, n.ext) : n \in related}
    IN  IF old.base = new.base THEN folder
        ELSE [n \in ((DOMAIN folder) \ related) \cup moved |->
                 IF n \in moved THEN folder[Name(old.base, n.ext)] ELSE folder[n]]

\* rename_file_with_suffix numbering the letter a as 3
rename_file_with_suffix_from_3(family, name) ==
    LET groups == suffix_pattern(family, name)
        letters == groups[Len(groups)]
        stem == IF Len(groups) = 3 THEN groups[1] \o groups[2] ELSE groups[1]
    IN  IF groups = NoMatch THEN [exc |-> FALSE, val |-> None]
        ELSE IF letters = << >> THEN [exc |-> FALSE, val |-> None]
        ELSE IF Len(letters) # 1 THEN [exc |-> TRUE, val |-> None]
        ELSE [exc |-> FALSE,
              val |-> Name(stem \o <<"_">>
                               \o IntToChars(ord(letters[1]) - CHAR_OFFSET + 1),
                           NiiGz)]

\* rename_file_with_suffix and _rename_t1_file_with_suffix: the letter
\* becomes the number ord(letter) - CHAR_OFFSET; ord() of a string of two
\* characters raises TypeError
rename_file_with_suffix(family, name) ==
    LET groups == suffix_pattern(family, name)
        letters == groups[Len(groups)]
        stem == IF Len(groups) = 3 THEN groups[1] \o groups[2] ELSE groups[1]
    IN  IF groups = NoMatch THEN [exc |-> FALSE, val |-> None]
        ELSE IF letters = << >> THEN [exc |-> FALSE, val |-> None]
        ELSE IF Len(letters) # 1 THEN [exc |-> TRUE, val |-> None]
        ELSE [exc |-> FALSE,
              val |-> Name(stem \o <<"_">> \o IntToChars(ord(letters[1]) - CHAR_OFFSET),
                           NiiGz)]

\* rename_file_without_suffix keeping the letters
rename_file_without_suffix_keeping(family, name) ==
    LET groups == suffix_pattern(family, name)
    IN  IF groups = NoMatch THEN None ELSE name

\* rename_file_without_suffix and _rename_t1_file_without_suffix
rename_file_without_suffix(family, name) ==
    LET groups == suffix_pattern(family, name)
        stem == IF Len(groups) = 3 THEN groups[1] \o groups[2] ELSE groups[1]
    IN  IF groups = NoMatch THEN None ELSE Name(stem, NiiGz)

\* the loop of _rename_dwi_files, _rename_swan_files, _rename_t1_files and
\* _rename_t2_files over the files collected at entry
RECURSIVE RenameLoop(_, _, _, _)
RenameLoop(family, folder, family_files, i) ==
    IF i > Len(family_files) THEN Done(folder)
    ELSE IF family_files[i] \notin DOMAIN folder
         THEN RenameLoop(family, folder, family_files, i + 1)
    ELSE IF Len(family_files) = 1
         THEN LET new_file_path == rename_file_without_suffix(family, family_files[i])
              IN  IF new_file_path = None THEN Done(folder)
                  ELSE Done(Rename(rename_related_files(folder, family_files[i], new_file_path),
                                   family_files[i], new_file_path))
    ELSE LET new_file_path == rename_file_with_suffix(family, family_files[i])
         IN  IF new_file_path.exc THEN Raised(folder)
             ELSE IF new_file_path.val = None
                  THEN RenameLoop(family, folder, family_files, i + 1)
             ELSE RenameLoop(family,
                             Rename(rename_related_files(folder, family_files[i],
                                                         new_file_path.val),
                                    family_files[i], new_file_path.val),
                             family_files, i + 1)

\* DwiNiftiProcessingStrategy.process, and the same method of the SWAN, T1
\* and T2 strategies: delete_small_files, then the rename loop
SuffixStrategy_process(family, folder) ==
    LET kept == delete_small_files(family, folder)
    IN  RenameLoop(family, kept, Matching(family, kept), 1)

\* the ADC files and the DWI0 files of the folder, as the loops at the top
\* of _update_adc_headers and _rename_adc_files collect them
AdcFiles(folder) == Matching("ADC", folder)

Dwi0Files(folder) ==
    SelectSeq(iterdir(folder),
              LAMBDA n : pattern("ADC", n) = NoMatch /\ Dwi0Pattern(n) # NoMatch)

\* the loops of _update_adc_headers: an ADC volume with the shape of the
\* DWI volume is saved again with the DWI's pixdim and affine
RECURSIVE UpdateLoop(_, _, _, _, _)
UpdateLoop(folder, dwi_files, adc_files, i, j) ==
    IF i > Len(dwi_files) THEN folder
    ELSE IF j > Len(adc_files) THEN UpdateLoop(folder, dwi_files, adc_files, i + 1, 1)
    ELSE LET dwi_nii == folder[dwi_files[i]]
             adc_nii == folder[adc_files[j]]
         IN  IF dwi_nii.shape = adc_nii.shape
             THEN UpdateLoop([folder EXCEPT ![adc_files[j]] =
                                 [adc_nii EXCEPT !.pixdim = dwi_nii.pixdim,
                                                 !.affine = dwi_nii.affine]],
                             dwi_files, adc_files, i, j + 1)
             ELSE UpdateLoop(folder, dwi_files, adc_files, i, j + 1)

\* ADCNiftiProcessingStrategy._update_adc_headers
update_adc_headers(folder) ==
    IF Dwi0Files(folder) # << >> /\ AdcFiles(folder) # << >>
    THEN UpdateLoop(folder, Dwi0Files(folder), AdcFiles(folder), 1, 1)
    ELSE folder

\* ADCNiftiProcessingStrategy._handle_related_files looks for
\* old_path.stem + ".bval", and the stem of ADC.nii.gz is ADC.nii: no file
\* of a folder has the name ADC.nii.bval, so nothing is renamed
handle_related_files(folder, old_path, new_path) == folder

\* ADCNiftiProcessingStrategy._pair_adc_with_dwi: at the first DWI0 file
\* with the ADC's affine, the ADC file is unlinked and its rounded volume
\* is saved under the DWI's name with DWI0 replaced by ADC
RECURSIVE pair_adc_with_dwi(_, _, _, _)
pair_adc_with_dwi(folder, adc_path, dwi_files, k) ==
    IF k > Len(dwi_files) THEN folder
    ELSE IF folder[dwi_files[k]].affine = folder[adc_path].affine
         THEN LET new_adc_path ==
                      Name(StrReplace(dwi_files[k].base, <<"D", "W", "I", "0">>,
                                      <<"A", "D", "C">>), NiiGz)
                  output_nii == [folder[adc_path] EXCEPT !.rounded = TRUE]
                  unlinked == Unlink(folder, {adc_path})
                  saved == [n \in (DOMAIN unlinked) \cup {new_adc_path} |->
                               IF n = new_adc_path THEN output_nii ELSE unlinked[n]]
              IN  handle_related_files(saved, adc_path, new_adc_path)
    ELSE pair_adc_with_dwi(folder, adc_path, dwi_files, k + 1)

\* the loop of _rename_adc_files over the files collected at entry
RECURSIVE RenameAdcLoop(_, _, _, _)
RenameAdcLoop(folder, adc_files, dwi_files, i) ==
    IF i > Len(adc_files) THEN folder
    ELSE IF adc_files[i] \notin DOMAIN folder
         THEN RenameAdcLoop(folder, adc_files, dwi_files, i + 1)
    ELSE IF Len(adc_files) = 1
         THEN LET new_file_path == rename_file_without_suffix("ADC", adc_files[i])
              IN  IF new_file_path = None THEN folder
                  ELSE Rename(rename_related_files(folder, adc_files[i], new_file_path),
                              adc_files[i], new_file_path)
    ELSE RenameAdcLoop(pair_adc_with_dwi(folder, adc_files[i], dwi_files, 1),
                       adc_files, dwi_files, i + 1)

\* ADCNiftiProcessingStrategy._rename_adc_files
rename_adc_files(folder) ==
    RenameAdcLoop(folder, AdcFiles(folder), Dwi0Files(folder), 1)

\* ADCNiftiProcessingStrategy.process: no call of delete_small_files
ADCNifti_process(folder) == Done(rename_adc_files(update_adc_headers(folder)))

\* strategy.process(study_path)
NiftiStrategy_process(family, folder) ==
    IF family = "ADC" THEN ADCNifti_process(folder)
    ELSE SuffixStrategy_process(family, folder)

-----------------------------------------------------------------------------
(* Study folders as the decoder leaves them.  The content of a file is    *)
(* the volume it holds (named after the file that first held it), its     *)
(* size in bytes, the shape, affine and pixdim of the volume, and whether  *)
(* the voxel data has been rounded to int32.                               *)

Chars(word) ==
    CASE word = "DWI0" -> <<"D", "W", "I", "0">>
      [] word = "DWI0a" -> <<"D", "W", "I", "0", "a">>
      [] word = "DWI0ab" -> <<"D", "W", "I", "0", "a", "b">>
      [] word = "DWI0_2" -> <<"D", "W", "I", "0", "_", "2">>
      [] word = "ADC" -> <<"A", "D", "C">>
      [] word = "ADCa" -> <<"A", "D", "C", "a">>
      [] word = "SWAN" -> <<"S", "W", "A", "N">>
      [] word = "SWANa" -> <<"S", "W", "A", "N", "a">>
      [] word = "SWAN_2" -> <<"S", "W", "A", "N", "_", "2">>
      [] word = "SWAN_3" -> <<"S", "W", "A", "N", "_", "3">>
      [] word = "T1_AXI" -> <<"T", "1", "_", "A", "X", "I">>
      [] word = "T1_AXIa" -> <<"T", "1", "_", "A", "X", "I", "a">>
      [] word = "T2_SAGr" -> <<"T", "2", "_", "S", "A", "G", "r">>
      [] word = "T2_SAGra" -> <<"T", "2", "_", "S", "A", "G", "r", "a">>

\* a volume file of the decoder
Volume(word, size, shape, affine) ==
    Name(Chars(word), NiiGz) :>
        [volume |-> word, size |-> size, shape |-> shape, affine |-> affine,
         pixdim |-> affine, rounded |-> FALSE]

\* a sidecar file of the decoder
Sidecar(word, ext) ==
    Name(Chars(word), ext) :>
        [volume |-> word, size |-> 0, shape |-> "", affine |-> "", pixdim |-> "",
         rounded |-> FALSE]

EmptyFolder == [n \in {} |-> None]

DwiParts ==
    { EmptyFolder,
      Volume("DWI0", MEDIUM_FILE_SIZE_LIMIT, "S1", "A1"),
      Volume("DWI0", MEDIUM_FILE_SIZE_LIMIT, "S1", "A1")
          @@ Volume("DWI0a", MEDIUM_FILE_SIZE_LIMIT, "S1", "A2")
          @@ Sidecar("DWI0a", "bval"),
      Volume("DWI0", MEDIUM_FILE_SIZE_LIMIT, "S1", "A1")
          @@ Volume("DWI0a", MEDIUM_FILE_SIZE_LIMIT - 1, "S1", "A2"),
      Volume("DWI0a", MEDIUM_FILE_SIZE_LIMIT, "S1", "A1") @@ Sidecar("DWI0a", "json"),
      Volume("DWI0", MEDIUM_FILE_SIZE_LIMIT, "S1", "A1")
          @@ Volume("DWI0ab", MEDIUM_FILE_SIZE_LIMIT, "S1", "A2") }

AdcParts ==
    { EmptyFolder,
      Volume("ADCa", SMALL_FILE_SIZE_LIMIT, "S1", "A1") @@ Sidecar("ADCa", "bval") }
        \cup { Volume("ADC", size, shape, "A1") :
                  size \in {SMALL_FILE_SIZE_LIMIT - 1, SMALL_FILE_SIZE_LIMIT},
                  shape \in {"S1", "S2"} }
        \cup { Volume("ADC", SMALL_FILE_SIZE_LIMIT, shape, affines[1])
                  @@ Volume("ADCa", SMALL_FILE_SIZE_LIMIT, shape, affines[2]) :
                  shape \in {"S1", "S2"},
                  affines \in {<<"A1", "A2">>, <<"A2", "A1">>, <<"A1", "A1">>,
                               <<"A2", "A3">>} }

OtherParts ==
    { EmptyFolder,
      Volume("SWAN", LARGE_FILE_SIZE_LIMIT, "S1", "A1")
          @@ Volume("SWANa", LARGE_FILE_SIZE_LIMIT, "S1", "A1")
          @@ Sidecar("SWANa", "json"),
      Volume("T1_AXI", LARGE_FILE_SIZE_LIMIT - 1, "S1", "A1") @@ Sidecar("T1_AXI", "json"),
      Volume("T1_AXI", LARGE_FILE_SIZE_LIMIT, "S1", "A1")
          @@ Volume("T1_AXIa", LARGE_FILE_SIZE_LIMIT, "S1", "A1")
          @@ Sidecar("T1_AXIa", "bvec"),
      Volume("T2_SAGr", LARGE_FILE_SIZE_LIMIT, "S1", "A1")
          @@ Volume("T2_SAGra", LARGE_FILE_SIZE_LIMIT - 1, "S1", "A1") }

\* the DWI and ADC files of a study with two diffusion acquisitions
TwoAcquisitions ==
    Volume("DWI0", MEDIUM_FILE_SIZE_LIMIT, "S1", "A1")
        @@ Volume("DWI0a", MEDIUM_FILE_SIZE_LIMIT, "S1", "A2")
        @@ Volume("ADC", SMALL_FILE_SIZE_LIMIT, "S2", "A1")
        @@ Volume("ADCa", SMALL_FILE_SIZE_LIMIT, "S2", "A2")

StudyFolders ==
    {d @@ a : d \in DwiParts, a \in AdcParts}
        \cup {TwoAcquisitions @@ o : o \in OtherParts}

\* a study with two SWAN volumes of 800 KiB, each with its .json
TwoSwanVolumes ==
    Volume("SWAN", LARGE_FILE_SIZE_LIMIT, "S1", "A1") @@ Sidecar("SWAN", "json")
        @@ Volume("SWANa", LARGE_FILE_SIZE_LIMIT, "S1", "A1")
        @@ Sidecar("SWANa", "json")

\* the study folders of a second study next to the first
SecondStudyFolders ==
    { Volume("T1_AXI", LARGE_FILE_SIZE_LIMIT, "S1", "A1")
          @@ Volume("T1_AXIa", LARGE_FILE_SIZE_LIMIT, "S1", "A1"),
      Volume("DWI0", MEDIUM_FILE_SIZE_LIMIT - 1, "S1", "A1")
          @@ Volume("ADC", SMALL_FILE_SIZE_LIMIT, "S1", "A2")
          @@ Sidecar("ADC", "json") }

-----------------------------------------------------------------------------
(* NiftiPostProcessManager: the list of normalizers, the operations that   *)
(* change it, and run(), which walks the study folders one after another   *)
(* and, in each, deletes the .json files and calls every normalizer of the *)
(* list in list order.  run() takes an executor and never uses it.         *)

MaxManagerOps == 2

MaxRuns == 2

\* the normalizers handed to add_processing_strategy and the types handed
\* to remove_processing_strategy
StrategyInputs == {"DWI", "ADC"}

\* the manager after construction, over an input directory of one or two
\* study folders
InitPostProcess ==
    /\ processing_strategy_list = create_all_mr_strategies
    /\ IdleClassification
    /\ IdleRun
    /\ IdleWorkers
    /\ IdlePool
    /\ IdleNormalizer
    /\ iterdir_order \in {"ascending", "descending"}
    /\ processing_strategies = default_processing_strategies
    /\ study_paths \in
          {<<first>> : first \in StudyFolders \cup {TwoSwanVolumes}}
              \cup {<<first, second>> :
                       first \in StudyFolders, second \in SecondStudyFolders}
    /\ post_pc = "idle"
    /\ study_index = 0
    /\ strategy_index = 0
    /\ post_log = << >>
    /\ manager_ops = 0
    /\ run_outcomes = << >>
    /\ run_start = << >>
    /\ lost = {}

post_unchanged ==
    <<processing_strategy_list, classify_vars, rename_vars, worker_vars,
      pool_vars, norm_vars, iterdir_order>>

\* add_processing_strategy(strategy)
AddProcessingStrategy(strategy) ==
    /\ post_pc = "idle"
    /\ manager_ops < MaxManagerOps
    /\ processing_strategies' = Append(processing_strategies, strategy)
    /\ manager_ops' = manager_ops + 1
    /\ UNCHANGED <<post_unchanged, study_paths, post_pc, study_index,
                   strategy_index, post_log, run_outcomes, run_start, lost>>

\* remove_processing_strategy(strategy_type)
RemoveProcessingStrategy(strategy_type) ==
    /\ post_pc = "idle"
    /\ manager_ops < MaxManagerOps
    /\ processing_strategies' =
           SelectSeq(processing_strategies, LAMBDA s : s # strategy_type)
    /\ manager_ops' = manager_ops + 1
    /\ UNCHANGED <<post_unchanged, study_paths, post_pc, study_index,
                   strategy_index, post_log, run_outcomes, run_start, lost>>

\* run(): up to the first call of post_process_study
Run ==
    /\ post_pc = "idle"
    /\ Len(run_outcomes) < MaxRuns
    /\ post_pc' = "delete_json_files"
    /\ study_index' = 1
    /\ strategy_index' = 0
    /\ post_log' = << >>
    /\ run_start' = study_paths
    /\ lost' = {}
    /\ UNCHANGED <<post_unchanged, processing_strategies, study_paths,
                   manager_ops, run_outcomes>>

\* what follows the last normalizer of a study: the next study, or the end
\* of run()
AfterStudy ==
    IF study_index < Len(study_paths)
    THEN /\ post_pc' = "delete_json_files"
         /\ study_index' = study_index + 1
         /\ strategy_index' = 0
         /\ run_outcomes' = run_outcomes
    ELSE /\ post_pc' = "idle"
         /\ study_index' = 0
         /\ strategy_index' = 0
         /\ run_outcomes' = Append(run_outcomes, "returned")

\* post_process_study: self._delete_json_files(study_path)
DeleteJsonFiles ==
    /\ post_pc = "delete_json_files"
    /\ study_paths' =
           [study_paths EXCEPT ![study_index] = delete_json_files(@)]
    /\ post_log' = Append(post_log, [study |-> study_index, step |-> "json"])
    /\ IF processing_strategies = << >>
       THEN AfterStudy
       ELSE /\ post_pc' = "process"
            /\ strategy_index' = 1
            /\ UNCHANGED <<study_index, run_outcomes>>
    /\ UNCHANGED <<post_unchanged, processing_strategies, manager_ops,
                   run_start, lost>>

\* the volumes held by the .nii.gz files of a folder
Volumes(folder) ==
    {folder[n].volume : n \in {m \in DOMAIN folder : m.ext = NiiGz}}

\* the volumes a normalizer removes on purpose: delete_small_files, which
\* the ADC normalizer never calls
DeletedAsSmall(family, folder) ==
    IF family = "ADC" THEN {}
    ELSE {folder[n].volume :
             n \in {m \in DOMAIN folder :
                       /\ pattern(family, m) # NoMatch
                       /\ folder[m].size < file_size_limit(family)}}

\* post_process_study: strategy.process(study_path) for the next normalizer
\* of the list; an exception leaves post_process_study and run() as a
\* ProcessingError
StrategyProcessStudy ==
    /\ post_pc = "process"
    /\ LET family == processing_strategies[strategy_index]
           folder == study_paths[study_index]
           result == NiftiStrategy_process(family, folder)
       IN  /\ study_paths' = [study_paths EXCEPT ![study_index] = result.folder]
           /\ post_log' =
                  Append(post_log, [study |-> study_index, step |-> family])
           /\ lost' = lost \cup
                  ((Volumes(folder) \ Volumes(result.folder))
                       \ DeletedAsSmall(family, folder))
           /\ IF result.exc
              THEN /\ post_pc' = "idle"
                   /\ study_index' = 0
                   /\ strategy_index' = 0
                   /\ run_outcomes' = Append(run_outcomes, "raised")
              ELSE IF strategy_index < Len(processing_strategies)
              THEN /\ strategy_index' = strategy_index + 1
                   /\ UNCHANGED <<post_pc, study_index, run_outcomes>>
              ELSE AfterStudy
    /\ UNCHANGED <<post_unchanged, processing_strategies, manager_ops,
                   run_start>>

NextPostProcess ==
    \/ \E strategy \in StrategyInputs : AddProcessingStrategy(strategy)
    \/ \E strategy_type \in StrategyInputs :
           RemoveProcessingStrategy(strategy_type)
    \/ Run
    \/ DeleteJsonFiles
    \/ StrategyProcessStudy

SpecPostProcess == InitPostProcess /\ [][NextPostProcess]_vars

-----------------------------------------------------------------------------
(* Properties of NiftiPostProcessManager                                   *)

\* the place of a step in the order json, DWI, ADC, SWAN, T1, T2
StepRank(step) ==
    CASE step = "json" -> 0
      [] step = "DWI" -> 1
      [] step = "ADC" -> 2
      [] step = "SWAN" -> 3
      [] step = "T1" -> 4
      [] step = "T2" -> 5

\* C14: in every study folder the .json files are deleted first and the
\* normalizers then run one at a time in the order DWI, ADC, SWAN, T1, T2,
\* whatever operations the manager has been through: of any two steps taken
\* in one study, the earlier one comes earlier in that order.
C14_FixedNormalizerOrder ==
    \A p, q \in 1..Len(post_log) :
        (p < q /\ post_log[p].study = post_log[q].study)
            => StepRank(post_log[p].step) < StepRank(post_log[q].step)

\* run() has returned from the pipeline as __init__ built it
PipelineHasRun ==
    /\ post_pc = "idle"
    /\ manager_ops = 0
    /\ run_outcomes # << >>
    /\ run_outcomes[Len(run_outcomes)] = "returned"

\* C15: after the normalizer pipeline has run on a study folder, every
\* remaining .nii.gz file of a family (DWI, ADC, SWAN, T1, T2) has a size
\* greater than or equal to the threshold of that family.
C15_SurvivorsReachThreshold ==
    PipelineHasRun =>
        \A s \in 1..Len(study_paths) :
            \A n \in DOMAIN study_paths[s] :
                \A family \in Families :
                    pattern(family, n) # NoMatch
                        => study_paths[s][n].size >= file_size_limit(family)

\* C16: normalization never gives two files of a study folder the same
\* canonical name: no rename or save of a normalizer lands on a name held
\* by, or also assigned to, another file, so no volume is overwritten.
C16_NoVolumeOverwritten == lost = {}

\* C17: the normalizer pipeline is idempotent: run a second time on study
\* folders it has already normalized, it leaves the file names and the
\* contents of the files as they were (run_start holds the folders as the
\* second run found them).
C17_PipelineIdempotent ==
    (/\ post_pc = "idle"
     /\ manager_ops = 0
     /\ run_outcomes = <<"returned", "returned">>) => study_paths = run_start

\* the elements of a list
SetOf(names) == {names[i] : i \in 1..Len(names)}

\* after holds every ADC volume of before under the name of the one DWI0
\* file of before that had its affine
ReboundByAffine(before, after) ==
    Len(AdcFiles(before)) > 1 =>
        \A adc \in SetOf(AdcFiles(before)) :
            \A dwi \in SetOf(Dwi0Files(before)) :
                (/\ before[dwi].affine = before[adc].affine
                 /\ \A other \in SetOf(Dwi0Files(before)) \cup SetOf(AdcFiles(before)) :
                        other \notin {dwi, adc}
                            => before[other].affine # before[adc].affine)
                    => LET new_adc_path ==
                               Name(StrReplace(dwi.base, <<"D", "W", "I", "0">>,
                                               <<"A", "D", "C">>), NiiGz)
                       IN  /\ new_adc_path \in DOMAIN after
                           /\ after[new_adc_path].volume = before[adc].volume

\* C18: in a study folder with several ADC files, ADC normalization rebinds
\* each ADC file to the DWI0 file that had the same affine before
\* normalization (with DWI0 (A1), DWI0a (A2), ADC (A1), ADCa (A2): the A1
\* volume ends under the name derived from DWI0, the A2 volume under the
\* name derived from DWI0a, both still present).
C18_AdcReboundToDwiOfSameAffine ==
    [][(/\ post_pc = "process"
        /\ post_log' # post_log
        /\ processing_strategies[strategy_index] = "ADC")
           => ReboundByAffine(study_paths[study_index], study_paths'[study_index])]_vars

\* the steps the current run() has taken in study s
StepsOf(s) ==
    {post_log[p].step : p \in {q \in 1..Len(post_log) : post_log[q].study = s}}

\* C19: a failure while a normalizer handles one file is confined to that
\* file: once run() has ended, however it ended, every normalizer of the
\* pipeline has been run on every study folder.
C19_FailureConfinedToOneFile ==
    (/\ post_pc = "idle"
     /\ manager_ops = 0
     /\ run_outcomes # << >>)
        => \A s \in 1..Len(study_paths) :
               StepsOf(s) = {"json"} \cup SetOf(processing_strategies)

-----------------------------------------------------------------------------
(* The worker pool of the managers.  Config reads DEFAULT_WORKER_COUNT,    *)
(* MAX_WORKER_COUNT and MIN_WORKER_COUNT from environment variables of the *)
(* same names when the module is loaded, with the defaults 4, 8 and 1;     *)
(* BaseManager._create_executor clamps the count it is given between the   *)
(* minimum and the maximum and builds a ThreadPoolExecutor of that size.   *)

MaxRequested == 10

\* the counts a caller asks for (--work, worker_count=...)
Requests == (0 - 2)..MaxRequested

\* the values the three settings take: the default, or the value of the
\* environment variable
DefaultSettings == {DefaultOfDEFAULT_WORKER_COUNT, MaxRequested + 2}

MaxSettings == {DefaultOfMAX_WORKER_COUNT, 2 * DefaultOfMAX_WORKER_COUNT}

MinSettings == {DefaultOfMIN_WORKER_COUNT, 0}

Min(a, b) == IF a < b THEN a ELSE b

Max(a, b) == IF a > b THEN a ELSE b

\* the same call without the clamp
get_worker_count_unclamped(requested_count) == requested_count

\* Config.get_worker_count
get_worker_count(requested_count) ==
    Min(MAX_WORKER_COUNT, Max(MIN_WORKER_COUNT, requested_count))

\* BaseManager._validate_worker_count
validate_worker_count(count) == get_worker_count(count)

\* BaseManager._create_executor: ThreadPoolExecutor(max_workers=validated_count),
\* which raises ValueError when max_workers <= 0
create_executor(count) ==
    LET validated_count == validate_worker_count(count)
    IN  IF validated_count <= 0
        THEN /\ pool_pc' = "ValueError"
             /\ max_workers' = 0
        ELSE /\ pool_pc' = "pool"
             /\ max_workers' = validated_count

InitPool ==
    /\ processing_strategy_list = create_all_mr_strategies
    /\ IdleClassification
    /\ IdleRun
    /\ IdleWorkers
    /\ IdleNifti
    /\ IdleNormalizer
    /\ DEFAULT_WORKER_COUNT \in DefaultSettings
    /\ MAX_WORKER_COUNT \in MaxSettings
    /\ MIN_WORKER_COUNT \in MinSettings
    /\ pool_pc = "start"
    /\ requested = 0
    /\ count_requested = FALSE
    /\ worker_count = 0
    /\ max_workers = 0
    /\ pool_origin = "none"

pool_unchanged ==
    <<processing_strategy_list, classify_vars, rename_vars, worker_vars,
      nifti_vars, norm_vars, DEFAULT_WORKER_COUNT, MAX_WORKER_COUNT,
      MIN_WORKER_COUNT>>

\* ConvertManager(..., worker_count=count)
ConvertManagerInit(count) ==
    /\ pool_pc = "start"
    /\ requested' = count
    /\ count_requested' = TRUE
    /\ worker_count' = validate_worker_count(count)
    /\ pool_pc' = "constructed"
    /\ UNCHANGED <<pool_unchanged, max_workers, pool_origin>>

\* ConvertManager(...) with worker_count left at Config.DEFAULT_WORKER_COUNT
ConvertManagerInitDefault ==
    /\ pool_pc = "start"
    /\ requested' = DEFAULT_WORKER_COUNT
    /\ count_requested' = FALSE
    /\ worker_count' = validate_worker_count(DEFAULT_WORKER_COUNT)
    /\ pool_pc' = "constructed"
    /\ UNCHANGED <<pool_unchanged, max_workers, pool_origin>>

\* ConvertManager.run(): self._create_executor(self.worker_count), handed
\* to DicomRenameManager.run
ConvertManagerRun ==
    /\ pool_pc = "constructed"
    /\ create_executor(worker_count)
    /\ pool_origin' = "manager"
    /\ UNCHANGED <<pool_unchanged, requested, count_requested, worker_count>>

\* DicomRenameManager.run(): no executor given
DicomRenameManagerRun ==
    /\ pool_pc = "start"
    /\ requested' = DEFAULT_WORKER_COUNT
    /\ count_requested' = FALSE
    /\ create_executor(DEFAULT_WORKER_COUNT)
    /\ pool_origin' = "manager"
    /\ UNCHANGED <<pool_unchanged, worker_count>>

\* DicomRenameManager.run(executor): the caller's executor is used as it is
DicomRenameManagerRunWithExecutor(size) ==
    /\ pool_pc = "start"
    /\ size > 0
    /\ requested' = size
    /\ count_requested' = TRUE
    /\ max_workers' = size
    /\ pool_pc' = "pool"
    /\ pool_origin' = "caller"
    /\ UNCHANGED <<pool_unchanged, worker_count>>

NextPool ==
    \/ \E count \in Requests : ConvertManagerInit(count)
    \/ ConvertManagerInitDefault
    \/ ConvertManagerRun
    \/ DicomRenameManagerRun
    \/ \E size \in Requests : DicomRenameManagerRunWithExecutor(size)

SpecPool == InitPool /\ [][NextPool]_vars

\* no environment variable overrides a setting
DefaultConfiguration ==
    /\ DEFAULT_WORKER_COUNT = DefaultOfDEFAULT_WORKER_COUNT
    /\ MAX_WORKER_COUNT = DefaultOfMAX_WORKER_COUNT
    /\ MIN_WORKER_COUNT = DefaultOfMIN_WORKER_COUNT

\* C20 as stated: the pool always has between 1 and 8 worker threads, and
\* 4 when no count is requested.
C20_PoolBetweenOneAndEight ==
    pool_pc = "pool" =>
        /\ max_workers \in
              DefaultOfMIN_WORKER_COUNT..DefaultOfMAX_WORKER_COUNT
        /\ ~count_requested => max_workers = DefaultOfDEFAULT_WORKER_COUNT

\* C20, amended: a pool that a manager creates has the requested count
\* clamped between MIN_WORKER_COUNT and MAX_WORKER_COUNT; when no
\* environment variable overrides the settings that is between 1 and 8, and
\* 4 when no count is requested, and the pool is always created.
C20_PoolClampedBySettings ==
    /\ (pool_pc = "pool" /\ pool_origin = "manager")
           => max_workers = Min(MAX_WORKER_COUNT, Max(MIN_WORKER_COUNT, requested))
    /\ (DefaultConfiguration /\ pool_origin = "manager")
           => /\ pool_pc = "pool"
              /\ max_workers \in
                    DefaultOfMIN_WORKER_COUNT..DefaultOfMAX_WORKER_COUNT
              /\ ~count_requested => max_workers = DefaultOfDEFAULT_WORKER_COUNT

\* under the default settings a manager asked for more than 8 workers has
\* created its pool
C20_Witness ==
    /\ DefaultConfiguration
    /\ pool_pc = "pool"
    /\ pool_origin = "manager"
    /\ count_requested
    /\ requested > DefaultOfMAX_WORKER_COUNT
    /\ max_workers = DefaultOfMAX_WORKER_COUNT

\* C21: a requested worker count outside the permitted range is a fatal
\* configuration error: the run stops and no work unit is executed, so a
\* manager that was asked for such a count never gets as far as a pool.
C21_OutOfRangeCountIsFatal ==
    (/\ count_requested
     /\ pool_origin # "caller"
     /\ requested \notin MIN_WORKER_COUNT..MAX_WORKER_COUNT)
        => pool_pc # "pool"

-----------------------------------------------------------------------------
(* FLAIR in the attribute bag of the T1 and T2 strategies                  *)

\* 800 <= TR <= 3000 and TE <= 30
T1FlairTiming(ds) ==
    /\ IsNumeral(ds.RepetitionTime)
    /\ IsNumeral(ds.EchoTime)
    /\ 800 <= NumeralValue[ds.RepetitionTime]
    /\ NumeralValue[ds.RepetitionTime] <= 3000
    /\ NumeralValue[ds.EchoTime] <= 30

\* TE >= 80 and TI present
T2FlairTiming(ds) ==
    /\ IsNumeral(ds.EchoTime)
    /\ NumeralValue[ds.EchoTime] >= 80
    /\ ds.InversionTime # Absent

\* C22: for the T1 and T2 strategies FLAIR enters the attribute bag on the
\* basis of the timing tags only, never of the series description: for T2
\* if and only if TE >= 80 ms and TI is present, for T1 if and only if
\* 800 <= TR <= 3000 and TE <= 30.
C22_FlairFromTimingTagsOnly ==
    pc = "classified" =>
        /\ Consults("T1", dicom_ds) =>
               (Ser("FLAIR") \in BagOf(T1_attribute_extractors(dicom_ds))
                    <=> T1FlairTiming(dicom_ds))
        /\ Consults("T2", dicom_ds) =>
               (Ser("FLAIR") \in BagOf(T2_attribute_extractors(dicom_ds))
                    <=> T2FlairTiming(dicom_ds))

-----------------------------------------------------------------------------
(* One normalizer called on a study folder: strategy.process(study_path).  *)
(* The DWI, SWAN, T1 and T2 normalizers delete the small files and then    *)
(* run their rename loop; the ADC normalizer repairs the headers and then  *)
(* renames or rebinds the ADC files.                                       *)

\* study folders in which the volumes still have their sidecars, and one
\* in which a one-letter and a two-letter suffix meet
SidecarFolders ==
    { TwoSwanVolumes,
      Volume("T1_AXI", LARGE_FILE_SIZE_LIMIT, "S1", "A1") @@ Sidecar("T1_AXI", "json")
          @@ Volume("T1_AXIa", LARGE_FILE_SIZE_LIMIT, "S1", "A1")
          @@ Sidecar("T1_AXIa", "json"),
      Volume("T2_SAGra", LARGE_FILE_SIZE_LIMIT, "S1", "A1")
          @@ Sidecar("T2_SAGra", "json"),
      Volume("DWI0", MEDIUM_FILE_SIZE_LIMIT, "S1", "A1")
          @@ Sidecar("DWI0", "bval") @@ Sidecar("DWI0", "bvec")
          @@ Volume("DWI0a", MEDIUM_FILE_SIZE_LIMIT, "S1", "A2")
          @@ Sidecar("DWI0a", "bval") @@ Sidecar("DWI0a", "bvec")
          @@ Sidecar("DWI0a", "json"),
      Volume("DWI0", MEDIUM_FILE_SIZE_LIMIT, "S1", "A1")
          @@ Volume("DWI0_2", MEDIUM_FILE_SIZE_LIMIT, "S1", "A2")
          @@ Volume("ADC", SMALL_FILE_SIZE_LIMIT, "S2", "A1")
          @@ Sidecar("ADC", "bval")
          @@ Volume("ADCa", SMALL_FILE_SIZE_LIMIT, "S2", "A2")
          @@ Sidecar("ADCa", "bval") @@ Sidecar("ADCa", "bvec"),
      Volume("DWI0a", MEDIUM_FILE_SIZE_LIMIT, "S1", "A1") @@ Sidecar("DWI0a", "bval")
          @@ Volume("DWI0ab", MEDIUM_FILE_SIZE_LIMIT, "S1", "A2") }

NormalizerFolders == StudyFolders \cup SecondStudyFolders \cup SidecarFolders

InitNormalizer ==
    /\ processing_strategy_list = create_all_mr_strategies
    /\ IdleClassification
    /\ IdleRun
    /\ IdleWorkers
    /\ IdlePool
    /\ iterdir_order \in {"ascending", "descending"}
    /\ processing_strategies = default_processing_strategies
    /\ study_paths = << >>
    /\ post_pc = "idle"
    /\ study_index = 0
    /\ strategy_index = 0
    /\ post_log = << >>
    /\ manager_ops = 0
    /\ run_outcomes = << >>
    /\ run_start = << >>
    /\ lost = {}
    /\ norm_family \in Families
    /\ norm_folder \in NormalizerFolders
    /\ norm_pc = "process"
    /\ norm_entry = norm_folder
    /\ norm_kept = << >>

norm_unchanged ==
    <<processing_strategy_list, classify_vars, rename_vars, worker_vars,
      nifti_vars, pool_vars, norm_family, norm_entry>>

\* process() of the DWI, SWAN, T1 and T2 normalizers:
\* self.delete_small_files(study_path)
NormalizerDeleteSmallFiles ==
    /\ norm_pc = "process"
    /\ norm_family # "ADC"
    /\ norm_folder' = delete_small_files(norm_family, norm_folder)
    /\ norm_kept' = norm_folder'
    /\ norm_pc' = "rename"
    /\ UNCHANGED norm_unchanged

\* process() of the DWI, SWAN, T1 and T2 normalizers: the rename loop
NormalizerRenameFiles ==
    /\ norm_pc = "rename"
    /\ LET result == RenameLoop(norm_family, norm_folder,
                                Matching(norm_family, norm_folder), 1)
       IN  /\ norm_folder' = result.folder
           /\ norm_pc' = IF result.exc THEN "raised" ELSE "returned"
    /\ UNCHANGED <<norm_unchanged, norm_kept>>

\* ADCNiftiProcessingStrategy.process: self._update_adc_headers(study_path)
NormalizerUpdateAdcHeaders ==
    /\ norm_pc = "process"
    /\ norm_family = "ADC"
    /\ norm_folder' = update_adc_headers(norm_folder)
    /\ norm_kept' = norm_folder'
    /\ norm_pc' = "rename_adc"
    /\ UNCHANGED norm_unchanged

\* ADCNiftiProcessingStrategy.process: self._rename_adc_files(study_path)
NormalizerRenameAdcFiles ==
    /\ norm_pc = "rename_adc"
    /\ norm_folder' = rename_adc_files(norm_folder)
    /\ norm_pc' = "returned"
    /\ UNCHANGED <<norm_unchanged, norm_kept>>

NextNormalizer ==
    \/ NormalizerDeleteSmallFiles
    \/ NormalizerRenameFiles
    \/ NormalizerUpdateAdcHeaders
    \/ NormalizerRenameAdcFiles

SpecNormalizer == InitNormalizer /\ [][NextNormalizer]_vars

-----------------------------------------------------------------------------
(* Properties of one normalizer                                            *)

KiB == 1024

\* the thresholds of the families: DWI 550 KiB, ADC 100 KiB, SWAN, T1 and
\* T2 800 KiB
ThresholdOf(family) ==
    CASE family = "DWI" -> 550 * KiB
      [] family = "ADC" -> 100 * KiB
      [] family \in {"SWAN", "T1", "T2"} -> 800 * KiB

\* the files of the family below its threshold
SmallFiles(family, folder) ==
    {n \in DOMAIN folder :
        pattern(family, n) # NoMatch /\ folder[n].size < ThresholdOf(family)}

\* after is before without the small files of the family and their .json
\* sidecars, every other file as it was
DeletesExactlySmall(family, before, after) ==
    /\ DOMAIN after =
           (DOMAIN before)
               \ (SmallFiles(family, before)
                      \cup {Name(n.base, "json") : n \in SmallFiles(family, before)})
    /\ \A n \in DOMAIN after : after[n] = before[n]

SuffixFamilies == {"DWI", "SWAN", "T1", "T2"}

\* the files the normalizer owns in the folder
Owned(family, folder) ==
    {n \in DOMAIN folder : pattern(family, n) # NoMatch}

\* the split of an owned name by the suffix pattern of the family: the
\* stem, and the letters that follow it
StemOf(family, name) ==
    LET groups == suffix_pattern(family, name)
    IN  IF groups = NoMatch THEN name.base
        ELSE IF Len(groups) = 3 THEN groups[1] \o groups[2] ELSE groups[1]

LettersOf(family, name) ==
    LET groups == suffix_pattern(family, name)
    IN  IF groups = NoMatch THEN << >> ELSE groups[Len(groups)]

\* stem_N with N = ord(c) - 95
Numbered(family, name) ==
    Name(StemOf(family, name) \o <<"_">>
             \o IntToChars(ord(LettersOf(family, name)[1]) - 95), NiiGz)

\* C24: when a normalizer owns two or more files in a study folder, each
\* owned file with trailing letter c is renamed to its stem followed by _N
\* with N = ord(c) - 95, and an owned file with no trailing letter keeps its
\* name and receives no numeric suffix.
C24_LettersBecomeNumbers ==
    (/\ norm_pc \in {"returned", "raised"}
     /\ norm_family \in SuffixFamilies
     /\ Cardinality(Owned(norm_family, norm_kept)) >= 2)
        => \A n \in Owned(norm_family, norm_kept) :
               /\ Len(LettersOf(norm_family, n)) = 1
                      => /\ n \notin DOMAIN norm_folder
                         /\ Numbered(norm_family, n) \in DOMAIN norm_folder
                         /\ norm_folder[Numbered(norm_family, n)] = norm_kept[n]
               /\ LettersOf(norm_family, n) = << >>
                      => /\ n \in DOMAIN norm_folder
                         /\ norm_folder[n] = norm_kept[n]


\* stem.nii.gz
Stripped(family, name) == Name(StemOf(family, name), NiiGz)

\* the normalizer has finished its renaming of the files of norm_kept
Normalized == norm_pc \in {"returned", "raised"}

\* C25: when a normalizer owns exactly one file in a study folder, suffix
\* normalization strips the trailing letter of that file (FOOa.nii.gz
\* becomes FOO.nii.gz) and leaves a file that has no trailing letter under
\* its existing name.
C25_SingleFileLosesLetter ==
    (Normalized /\ Cardinality(Owned(norm_family, norm_kept)) = 1)
        => \A n \in Owned(norm_family, norm_kept) :
               /\ norm_pc = "returned"
               /\ Stripped(norm_family, n) \in DOMAIN norm_folder
               /\ norm_folder[Stripped(norm_family, n)] = norm_kept[n]
               /\ LettersOf(norm_family, n) # << >> => n \notin DOMAIN norm_folder
               /\ \A m \in DOMAIN norm_folder :
                      m.ext = NiiGz /\ m # Stripped(norm_family, n)
                          => m \in DOMAIN norm_kept /\ norm_folder[m] = norm_kept[m]

\* the T2 normalizer, left with T2_SAGra.nii.gz alone, has renamed it to
\* T2_SAGr.nii.gz
C25_Witness ==
    /\ Normalized
    /\ norm_family = "T2"
    /\ Owned("T2", norm_kept) = {Name(Chars("T2_SAGra"), NiiGz)}
    /\ Name(Chars("T2_SAGra"), NiiGz) \notin DOMAIN norm_folder
    /\ Name(Chars("T2_SAGr"), NiiGz) \in DOMAIN norm_folder
    /\ norm_folder[Name(Chars("T2_SAGr"), NiiGz)].volume = "T2_SAGra"


\* run() has returned from its first pass over a study folder holding
\* SWAN.nii.gz and SWANa.nii.gz of 800 KiB with their .json files
TwoSwanVolumesNormalized ==
    /\ PipelineHasRun
    /\ run_start = <<TwoSwanVolumes>>

\* the volume held by the file word.nii.gz of the study folder
VolumeAt(word) == study_paths[1][Name(Chars(word), NiiGz)].volume

\* C26: normalizing a study folder that contains SWAN.nii.gz and
\* SWANa.nii.gz (both at least 800 KiB) with matching .json sidecars leaves
\* SWAN_2.nii.gz (from the suffixless file) and SWAN_3.nii.gz (from SWANa),
\* with the .json files renamed accordingly.
C26_SwanBecomes2And3 ==
    TwoSwanVolumesNormalized =>
        /\ DOMAIN study_paths[1] =
               {Name(Chars("SWAN_2"), NiiGz), Name(Chars("SWAN_3"), NiiGz),
                Name(Chars("SWAN_2"), "json"), Name(Chars("SWAN_3"), "json")}
        /\ VolumeAt("SWAN_2") = "SWAN"
        /\ VolumeAt("SWAN_3") = "SWANa"

\* C26, as the code has it: the folder is left with SWAN.nii.gz, the
\* suffixless file under its own name, and SWAN_2.nii.gz, which is SWANa;
\* no .json file is left, run() having deleted them before the normalizers.
C26_SwanKeepsNameAndA2 ==
    TwoSwanVolumesNormalized =>
        /\ DOMAIN study_paths[1] =
               {Name(Chars("SWAN"), NiiGz), Name(Chars("SWAN_2"), NiiGz)}
        /\ VolumeAt("SWAN") = "SWAN"
        /\ VolumeAt("SWAN_2") = "SWANa"

C26_Witness ==
    /\ TwoSwanVolumesNormalized
    /\ Name(Chars("SWAN_2"), NiiGz) \in DOMAIN study_paths[1]
    /\ Name(Chars("SWANa"), NiiGz) \notin DOMAIN study_paths[1]


\* suffix normalization has run: a DWI, SWAN, T1 or T2 normalizer, or the
\* ADC normalizer on a folder with a single ADC file
SuffixNormalized ==
    /\ Normalized
    /\ norm_family = "ADC" => Cardinality(Owned("ADC", norm_kept)) = 1

\* the names under which the normalizer has put the volume file old: the
\* new files of the folder that hold what old held
RenamedTo(old) ==
    IF old \in DOMAIN norm_folder \/ old \notin Owned(norm_family, norm_kept) THEN {}
    ELSE {m \in (DOMAIN norm_folder) \ (DOMAIN norm_kept) :
             m.ext = NiiGz /\ norm_folder[m] = norm_kept[old]}

\* the sidecars of the folder before the renaming
Sidecars == {s \in DOMAIN norm_kept : s.ext # NiiGz}

\* C27: whenever suffix normalization renames a NIfTI file, every sidecar
\* sharing its stem (.json, .bval, .bvec) is renamed to the new stem in the
\* same step: afterwards no sidecar is left under the old stem, and no
\* sidecar belonging to another file has been renamed.
C27_SidecarsFollowTheirVolume ==
    SuffixNormalized =>
        \A s \in Sidecars :
            LET new == RenamedTo(Name(s.base, NiiGz))
            IN  IF new = {}
                THEN s \in DOMAIN norm_folder /\ norm_folder[s] = norm_kept[s]
                ELSE /\ s \notin DOMAIN norm_folder
                     /\ \A m \in new :
                            /\ Name(m.base, s.ext) \in DOMAIN norm_folder
                            /\ norm_folder[Name(m.base, s.ext)] = norm_kept[s]

\* the DWI normalizer has renamed DWI0a.nii.gz, which had a .bval, a .bvec
\* and a .json, next to DWI0.nii.gz with its own .bval and .bvec
C27_Witness ==
    /\ SuffixNormalized
    /\ norm_family = "DWI"
    /\ {Name(Chars("DWI0a"), "bval"), Name(Chars("DWI0a"), "bvec"),
        Name(Chars("DWI0a"), "json"), Name(Chars("DWI0"), "bval"),
        Name(Chars("DWI0"), "bvec")} \subseteq Sidecars
    /\ RenamedTo(Name(Chars("DWI0a"), NiiGz)) = {Name(Chars("DWI0_2"), NiiGz)}
    /\ Name(Chars("DWI0_2"), "bvec") \in DOMAIN norm_folder


\* the DWI0 files of the folder with which the ADC file shares its shape
\* or its affine
DwiSiblings(folder, adc) ==
    {d \in DOMAIN folder :
        /\ pattern("ADC", d) = NoMatch
        /\ Dwi0Pattern(d) # NoMatch
        /\ \/ folder[d].shape = folder[adc].shape
           \/ folder[d].affine = folder[adc].affine}

\* C28: an ADC file that has no shape-matched and no affine-matched DWI
\* sibling is left untouched by the ADC normalizer: it keeps its name, its
\* header and its voxel data.
C28_UnmatchedAdcUntouched ==
    (Normalized /\ norm_family = "ADC")
        => \A adc \in Owned("ADC", norm_entry) :
               DwiSiblings(norm_entry, adc) = {}
                   => /\ adc \in DOMAIN norm_folder
                      /\ norm_folder[adc] = norm_entry[adc]


\* the names under which rebinding has saved the ADC volume old: the ADC
\* files of the folder that hold its rounded data
ReboundTo(old) ==
    {m \in DOMAIN norm_folder :
        /\ m # old
        /\ m.ext = NiiGz
        /\ norm_folder[m].volume = norm_kept[old].volume
        /\ norm_folder[m].rounded}

\* C29: when ADC rebinding renames an ADC file, the .bval and .bvec sidecars
\* that existed under the old ADC name are renamed to the new ADC stem, so
\* none is left under the old name.
C29_SidecarsFollowReboundAdc ==
    (/\ Normalized
     /\ norm_family = "ADC"
     /\ Cardinality(Owned("ADC", norm_kept)) >= 2)
        => \A old \in Owned("ADC", norm_kept) :
               \A ext \in {"bval", "bvec"} :
                   (ReboundTo(old) # {} /\ Name(old.base, ext) \in DOMAIN norm_kept)
                       => /\ Name(old.base, ext) \notin DOMAIN norm_folder
                          /\ \A m \in ReboundTo(old) :
                                 Name(m.base, ext) \in DOMAIN norm_folder


-----------------------------------------------------------------------------
(* Properties of the output tree of the classification phase               *)

\* C30: the classification phase never overwrites a file that already
\* exists in the output tree: under any sequence or interleaving of work
\* units, including two instances that map to the same destination path, a
\* destination file is written at most once and the copy is skipped when the
\* destination exists: a file of the output tree stays as it was written.
C30_NoOutputFileOverwritten ==
    [][\A f \in files : f \in files']_vars

====
